---------------------------- MODULE Spec2Model ----------------------------
(***************************************************************************)
(* Model of streamdown-svelte's URL hardening                              *)
(* (src/lib/streamdown_marked/lib/harden-markdown.ts).                     *)
(*                                                                         *)
(* URLs are TLA+ strings; a character is a string of length one, read with *)
(* SubSeq.  TLA+ string literals are ASCII, so two code points are written *)
(* with the escapes TLA+ has and one with a stand-in:                      *)
(*   "\f"  U+000C, the representative of the control-character class       *)
(*         [\x00-\x08\x0B\x0C\x0E-\x1F\x7F];                               *)
(*   "\t" "\n" "\r"  tab, line feed, carriage return;                      *)
(*   "~"   stands for U+200B (zero-width space), the representative of     *)
(*         the zero-width class U+200B..U+200D, U+FEFF; no input uses a    *)
(*         real tilde.                                                  *)
(* The platform URL parser is modelled for the characters of the inputs:   *)
(* letters, digits (in ports and paths only), : / \ ? # @ . * - space and  *)
(* the code points above.  Percent signs, IPv4/IPv6 hosts, non-ASCII       *)
(* domains and Windows drive letters are outside the modelled alphabet.    *)
(***************************************************************************)
EXTENDS Integers, Sequences, FiniteSets, TLC

\* ------------------------------------------------------------ strings
\* A value used more than once is handed on as an operator argument.

\* s[i] of a JavaScript string.
CharAt(s, i) == SubSeq(s, i, i)

\* The least and the greatest of a set of positions, none for the empty set.
First(I, none) == IF I = {} THEN none ELSE CHOOSE i \in I : \A j \in I : i <= j
Last(I, none) == IF I = {} THEN none ELSE CHOOSE i \in I : \A j \in I : i >= j

\* The first position of s holding a character of cs, Len(s) + 1 when none.
IndexOfAny(s, cs) == First({i \in 1..Len(s) : CharAt(s, i) \in cs}, Len(s) + 1)

\* The last position of s holding a character of cs, 0 when none.
LastIndexOfAny(s, cs) == Last({i \in 1..Len(s) : CharAt(s, i) \in cs}, 0)

\* The first position of s holding a character outside cs, Len(s) + 1 when none.
IndexNotIn(s, cs) == First({i \in 1..Len(s) : CharAt(s, i) \notin cs}, Len(s) + 1)

\* s.slice(i - 1): the rest of s from position i on.
From(s, i) == SubSeq(s, i, Len(s))

\* String.prototype.startsWith
startsWith(s, p) == Len(p) <= Len(s) /\ SubSeq(s, 1, Len(p)) = p

\* What map gives for the character c, c itself outside its domain.
Image(c, map) == IF c \in DOMAIN map THEN map[c] ELSE c

\* s with every character replaced by its image under map.
RECURSIVE Translate(_, _)
Translate(s, map) ==
    IF s = "" THEN "" ELSE Image(CharAt(s, 1), map) \o Translate(From(s, 2), map)

\* The lower-case letter of every ASCII upper-case letter.
LowerCase ==
    [c \in {CharAt("ABCDEFGHIJKLMNOPQRSTUVWXYZ", i) : i \in 1..26} |->
        CharAt("abcdefghijklmnopqrstuvwxyz", IndexOfAny("ABCDEFGHIJKLMNOPQRSTUVWXYZ", {c}))]

\* String.prototype.toLowerCase on ASCII letters.
toLowerCase(s) == Translate(s, LowerCase)

\* ------------------------------------------- the platform URL parser
\* new URL(url) and new URL(url, base) follow the WHATWG URL standard.  The
\* operators below are its basic URL parser and serializer for the modelled
\* alphabet, one operator per state or group of states; a URL record holds the
\* standard's components, the path as its serialization (each segment preceded
\* by "/", or the opaque path).

Letters == {CharAt("abcdefghijklmnopqrstuvwxyzABCDEFGHIJKLMNOPQRSTUVWXYZ", i) : i \in 1..52}
Digits == {CharAt("0123456789", i) : i \in 1..10}
SpecialSchemes == {"http", "https", "ftp", "ws", "wss", "file"}

\* C0 control or space: what the parser strips from both ends of its input.
C0Space == {" ", "\t", "\n", "\r", "\f"}

\* The delimiters of path segments: "\" counts in a special URL.
Slashes(special) == IF special THEN {"/", "\\"} ELSE {"/"}

\* A URL the parser failed on (the constructor throws a TypeError), also "no base".
NoURL ==
    [ok |-> FALSE, scheme |-> "", hasHost |-> FALSE, username |-> "", password |-> "",
     hostname |-> "", port |-> "", path |-> "", opaque |-> FALSE,
     hasQuery |-> FALSE, query |-> "", hasFragment |-> FALSE, fragment |-> ""]

\* The standard's percent-encode sets on the modelled characters, each with the
\* UTF-8 percent-encoding of its members: C0 control (opaque hosts and paths),
\* path (path, query and fragment agree on the modelled alphabet), userinfo.
C0ControlSet == ("\f" :> "%0C") @@ ("~" :> "%E2%80%8B")
PathSet == C0ControlSet @@ (" " :> "%20")
UserinfoSet == PathSet @@ (":" :> "%3A") @@ ("@" :> "%40") @@ ("\\" :> "%5C")

PercentEncode(s, set) == Translate(s, set)

\* The standard's "shorten a path": drop the last segment, if any.
ShortenPath(path) ==
    IF path = "" THEN "" ELSE SubSeq(path, 1, LastIndexOfAny(path, {"/"}) - 1)

\* The path acc after the segment buf: "." is skipped, ".." shortens the path,
\* and either leaves an empty last segment when it ends the input.
AppendSegment(acc, buf, atEnd) ==
    CASE buf = ".." -> ShortenPath(acc) \o (IF atEnd THEN "/" ELSE "")
      [] buf = "."  -> acc \o (IF atEnd THEN "/" ELSE "")
      [] OTHER      -> acc \o "/" \o buf

\* The standard's path state: the segments of r appended to the path acc;
\* PathState has the position i of the first delimiter of r.
RECURSIVE ParsePath(_, _, _)
RECURSIVE PathState(_, _, _, _)
PathState(acc, r, special, i) ==
    IF i > Len(r) THEN AppendSegment(acc, PercentEncode(r, PathSet), TRUE)
    ELSE ParsePath(AppendSegment(acc, PercentEncode(SubSeq(r, 1, i - 1), PathSet), FALSE),
                   From(r, i + 1), special)

ParsePath(acc, r, special) == PathState(acc, r, special, IndexOfAny(r, Slashes(special)))

\* The default port of a special scheme.
DefaultPort(scheme) ==
    CASE scheme \in {"http", "ws"}   -> "80"
      [] scheme \in {"https", "wss"} -> "443"
      [] scheme = "ftp"              -> "21"
      [] OTHER                       -> ""

\* A five-digit port above 65535: compared at k, the first digit that differs.
Above(digits, k) ==
    /\ k > 0
    /\ IndexOfAny("0123456789", {CharAt(digits, k)})
         > IndexOfAny("0123456789", {CharAt("65535", k)})

TooBig(digits) ==
    \/ Len(digits) > 5
    \/ /\ Len(digits) = 5
       /\ Above(digits, First({i \in 1..5 : CharAt(digits, i) # CharAt("65535", i)}, 0))

\* The port as a number: p without its leading zeros, z the first other digit.
StripZeros(p, z) == IF p = "" THEN "" ELSE IF z > Len(p) THEN "0" ELSE From(p, z)

PortOf(digits, scheme) ==
    IF TooBig(digits) THEN [ok |-> FALSE, port |-> ""]
    ELSE [ok |-> TRUE, port |-> IF digits = DefaultPort(scheme) THEN "" ELSE digits]

\* The standard's port state: decimal digits, at most 65535, the scheme's
\* default port dropped.  [ok, port]
ParsePort(p, scheme) ==
    IF IndexNotIn(p, Digits) <= Len(p) THEN [ok |-> FALSE, port |-> ""]
    ELSE PortOf(StripZeros(p, IndexNotIn(p, {"0"})), scheme)

\* The host parser: domain to ASCII (lower case, U+200B ignored) for a special
\* URL, the opaque-host parser otherwise.
HostName(hostRaw, special) ==
    IF special THEN Translate(toLowerCase(hostRaw), "~" :> "")
    ELSE PercentEncode(hostRaw, C0ControlSet)

\* A forbidden host code point in the host.
ForbiddenHost(hostRaw, special) ==
    IndexOfAny(hostRaw, IF special THEN {" ", "\f"} ELSE {" ", "\\"}) <= Len(hostRaw)

\* The URL with its authority: credentials split at their first ":" (at c).
WithCredentials(creds, c, hostname, port, scheme) ==
    [NoURL EXCEPT !.ok = TRUE, !.scheme = scheme, !.hasHost = TRUE,
                  !.username = PercentEncode(SubSeq(creds, 1, c - 1), UserinfoSet),
                  !.password = PercentEncode(From(creds, c + 1), UserinfoSet),
                  !.hostname = hostname, !.port = port]

\* The standard's host and port states on the host hostRaw and the parsed port.
HostState(creds, hostRaw, hasColon, port, scheme, special) ==
    IF \/ hostRaw = "" /\ (special \/ hasColon)
       \/ ForbiddenHost(hostRaw, special)
       \/ special /\ HostName(hostRaw, special) = ""
       \/ ~port.ok
    THEN NoURL
    ELSE WithCredentials(creds, IndexOfAny(creds, {":"}), HostName(hostRaw, special),
                         port.port, scheme)

\* Host and port split at the first ":" of hostport (at colon).
HostPort(creds, hostport, colon, scheme, special) ==
    HostState(creds, SubSeq(hostport, 1, colon - 1), colon <= Len(hostport),
              ParsePort(From(hostport, colon + 1), scheme), scheme, special)

\* The standard's authority state: credentials up to the last "@" (at at).
AuthorityState(auth, at, scheme, special) ==
    IF at > 0 /\ at = Len(auth) THEN NoURL
    ELSE HostPort(SubSeq(auth, 1, at - 1), From(auth, at + 1),
                  IndexOfAny(From(auth, at + 1), {":"}), scheme, special)

\* The authority auth, the text between "//" and the path.
ParseAuthority(auth, scheme) ==
    AuthorityState(auth, LastIndexOfAny(auth, {"@"}), scheme, scheme \in SpecialSchemes)

\* The parsed authority u with the path that follows it in a (from e on).
WithPath(u, a, e, special) ==
    IF ~u.ok THEN NoURL
    ELSE [u EXCEPT !.path = IF e > Len(a) /\ ~special THEN ""
                            ELSE ParsePath("", From(a, e + 1), special)]

\* Authority state and path start state on a, the text after the slashes: the
\* authority ends at the first delimiter (at e).
AuthorityAndPath(a, e, scheme, special) ==
    WithPath(ParseAuthority(SubSeq(a, 1, e - 1), scheme), a, e, special)

Authority(a, scheme, special) ==
    AuthorityAndPath(a, IndexOfAny(a, Slashes(special)), scheme, special)

\* Special authority (ignore) slashes states.
SpecialAuthority(body, scheme) ==
    Authority(From(body, IndexNotIn(body, {"/", "\\"})), scheme, TRUE)

\* body begins with two delimiters.
twoSlashes(body, special) ==
    /\ Len(body) >= 2
    /\ CharAt(body, 1) \in Slashes(special)
    /\ CharAt(body, 2) \in Slashes(special)

\* Query and fragment of the input: [hasQuery, query, hasFragment, fragment].
\* u with them, and u with the fragment only.
WithTail(u, tail) ==
    IF u.ok THEN [u EXCEPT !.hasQuery = tail.hasQuery, !.query = tail.query,
                           !.hasFragment = tail.hasFragment, !.fragment = tail.fragment]
    ELSE NoURL

WithFragment(u, tail) ==
    [u EXCEPT !.hasFragment = tail.hasFragment, !.fragment = tail.fragment]

\* The base URL without query and fragment, under the input's scheme.
fromBase(base, scheme) ==
    [base EXCEPT !.scheme = scheme, !.hasQuery = FALSE, !.query = "",
                 !.hasFragment = FALSE, !.fragment = ""]

\* Relative state and relative slash state.
Relative(body, tail, base, scheme, special) ==
    CASE body = "" ->
           IF tail.hasQuery THEN fromBase(base, scheme)
           ELSE [fromBase(base, scheme) EXCEPT !.hasQuery = base.hasQuery,
                                               !.query = base.query]
      [] body # "" /\ CharAt(body, 1) \in Slashes(special) ->
           IF special /\ twoSlashes(body, special) THEN SpecialAuthority(body, scheme)
           ELSE IF Len(body) >= 2 /\ CharAt(body, 2) = "/"
                THEN Authority(From(body, 3), scheme, special)
                ELSE [fromBase(base, scheme) EXCEPT
                        !.path = ParsePath("", From(body, 2), special)]
      [] OTHER ->
           [fromBase(base, scheme) EXCEPT
              !.path = ParsePath(ShortenPath(base.path), body, special)]

\* A relative reference with its own query and fragment; an empty reference
\* keeps the query of the base.
RelativeTail(u, body, tail) ==
    IF body = "" /\ ~tail.hasQuery THEN WithFragment(u, tail) ELSE WithTail(u, tail)

\* File host state ("localhost" is the empty host).
FileHost(host, path, tail) ==
    IF IndexOfAny(host, {" ", "\f", ":", "@"}) <= Len(host) THEN NoURL
    ELSE WithTail([NoURL EXCEPT !.ok = TRUE, !.scheme = "file", !.hasHost = TRUE,
                                !.hostname = IF host = "localhost" THEN "" ELSE host,
                                !.path = ParsePath("", path, TRUE)],
                  tail)

\* a, the text after "file://", split at its first delimiter (at e).
FileAuthority(a, e, tail) == FileHost(toLowerCase(SubSeq(a, 1, e - 1)), From(a, e + 1), tail)

\* File state and file slash state.
FileState(body, tail) ==
    IF twoSlashes(body, TRUE)
    THEN FileAuthority(From(body, 3), IndexOfAny(From(body, 3), {"/", "\\"}), tail)
    ELSE WithTail([NoURL EXCEPT
                     !.ok = TRUE, !.scheme = "file", !.hasHost = TRUE,
                     !.path = ParsePath("", IF body # "" /\ CharAt(body, 1) \in {"/", "\\"}
                                            THEN From(body, 2) ELSE body, TRUE)],
                  tail)

\* The states after the scheme, on body (the input without scheme, query and
\* fragment) and tail (its query and fragment).
AfterScheme(hasScheme, scheme, special, body, tail, base) ==
    CASE hasScheme /\ scheme = "file" -> FileState(body, tail)
      [] hasScheme /\ special /\ scheme # "file" ->
           \* special relative or authority state, special authority slashes state
           IF base.ok /\ base.scheme = scheme /\ ~twoSlashes(body, TRUE)
           THEN RelativeTail(Relative(body, tail, base, scheme, special), body, tail)
           ELSE WithTail(SpecialAuthority(body, scheme), tail)
      [] hasScheme /\ ~special ->
           \* path or authority state, opaque path state
           IF startsWith(body, "//") THEN WithTail(Authority(From(body, 3), scheme, FALSE), tail)
           ELSE IF startsWith(body, "/")
           THEN WithTail([NoURL EXCEPT !.ok = TRUE, !.scheme = scheme,
                                       !.path = ParsePath("", From(body, 2), FALSE)],
                         tail)
           ELSE WithTail([NoURL EXCEPT !.ok = TRUE, !.scheme = scheme, !.opaque = TRUE,
                                       !.path = PercentEncode(body, C0ControlSet)],
                         tail)
      [] OTHER ->
           \* no scheme state
           IF ~base.ok THEN NoURL
           ELSE IF base.opaque
           THEN IF body = "" /\ ~tail.hasQuery /\ tail.hasFragment
                THEN WithFragment(base, tail)
                ELSE NoURL
           ELSE RelativeTail(Relative(body, tail, base, scheme, special), body, tail)

\* Query state: beforeFragment split at its first "?" (at q).
QueryState(hasScheme, scheme, beforeFragment, q, hasFragment, fragment, base) ==
    AfterScheme(hasScheme, scheme, scheme \in SpecialSchemes,
                SubSeq(beforeFragment, 1, q - 1),
                [hasQuery |-> q <= Len(beforeFragment),
                 query |-> PercentEncode(From(beforeFragment, q + 1), PathSet),
                 hasFragment |-> hasFragment, fragment |-> fragment],
                base)

\* Fragment state: rest, the input after its scheme, split at its first "#"
\* (at h).
FragmentState(hasScheme, scheme, rest, h, base) ==
    QueryState(hasScheme, scheme, SubSeq(rest, 1, h - 1),
               IndexOfAny(SubSeq(rest, 1, h - 1), {"?"}),
               h <= Len(rest), PercentEncode(From(rest, h + 1), PathSet), base)

\* The input s with the scheme found (hasScheme, up to position i) or without.
SchemeFound(hasScheme, s, i, base) ==
    FragmentState(hasScheme,
                  IF hasScheme THEN toLowerCase(SubSeq(s, 1, i - 1)) ELSE base.scheme,
                  IF hasScheme THEN From(s, i + 1) ELSE s,
                  IndexOfAny(IF hasScheme THEN From(s, i + 1) ELSE s, {"#"}),
                  base)

\* Scheme start state and scheme state: i is the first position of s that
\* holds no scheme character.
SchemeState(s, i, base) ==
    SchemeFound(s # "" /\ CharAt(s, 1) \in Letters /\ i <= Len(s) /\ CharAt(s, i) = ":",
                s, i, base)

\* The input without leading and trailing C0 control or space, and without tab
\* and newline.
Strip(input) ==
    Translate(SubSeq(input, IndexNotIn(input, C0Space),
                     LastIndexOfAny(input, {CharAt(input, i) : i \in 1..Len(input)} \ C0Space)),
              ("\t" :> "") @@ ("\n" :> "") @@ ("\r" :> ""))

Scheme(s, base) == SchemeState(s, IndexNotIn(s, Letters \cup Digits \cup {"+", "-", "."}), base)

\* The standard's basic URL parser: input parsed on its own (base = NoURL) or
\* against a parsed base URL.
BasicParse(input, base) == Scheme(Strip(input), base)

\* url against the parsed base b, none when there is no second argument.
AgainstBase(url, base, b) == IF base # "" /\ ~b.ok THEN NoURL ELSE BasicParse(url, b)

\* new URL(url) for base = "" (no second argument), new URL(url, base) otherwise.
\* ok = FALSE stands for the TypeError the constructor throws.
URL(url, base) == AgainstBase(url, base, IF base = "" THEN NoURL ELSE BasicParse(base, NoURL))

\* URL.prototype.protocol
protocol(u) == u.scheme \o ":"

\* URL.prototype.pathname
pathname(u) == u.path

\* URL.prototype.search
search(u) == IF u.hasQuery /\ u.query # "" THEN "?" \o u.query ELSE ""

\* URL.prototype.hash
hash(u) == IF u.hasFragment /\ u.fragment # "" THEN "#" \o u.fragment ELSE ""

\* host with port, as in URL.prototype.host
host(u) == u.hostname \o (IF u.port = "" THEN "" ELSE ":" \o u.port)

\* URL.prototype.href: the standard's URL serializer
href(u) ==
    u.scheme \o ":"
    \o (IF u.hasHost
        THEN "//"
             \o (IF u.username # "" \/ u.password # ""
                 THEN u.username \o (IF u.password = "" THEN "" ELSE ":" \o u.password) \o "@"
                 ELSE "")
             \o host(u)
        ELSE IF ~u.opaque /\ startsWith(u.path, "//") THEN "/." ELSE "")
    \o u.path
    \o (IF u.hasQuery THEN "?" \o u.query ELSE "")
    \o (IF u.hasFragment THEN "#" \o u.fragment ELSE "")

\* The origin of a blob: URL, from its path parsed as a URL.
BlobOrigin(inner) ==
    IF inner.ok /\ inner.scheme \in {"http", "https"}
    THEN inner.scheme \o "://" \o host(inner)
    ELSE "null"

\* URL.prototype.origin: a tuple origin for http, https, ftp, ws and wss (and for
\* a blob: URL whose path is an http(s) URL), the opaque origin "null" otherwise.
origin(u) ==
    CASE u.scheme \in {"http", "https", "ftp", "ws", "wss"} -> u.scheme \o "://" \o host(u)
      [] u.scheme = "blob" -> BlobOrigin(BasicParse(u.path, NoURL))
      [] OTHER -> "null"

\* ------------------------------------------------ harden-markdown.ts
\* JavaScript values passed to and returned by the transformer: a type tag and,
\* for a string or a number, its text.
Str(s)    == [type |-> "string", value |-> s]
Null      == [type |-> "null", value |-> ""]
Undefined == [type |-> "undefined", value |-> ""]
Num(n)    == [type |-> "number", value |-> n]
Obj       == [type |-> "object", value |-> ""]
\* The outcome of a call that threw instead of returning.
Thrown    == [type |-> "throw", value |-> ""]

\* !url
falsy(url) ==
    \/ url.type \in {"null", "undefined"}
    \/ url.type = "string" /\ url.value = ""
    \/ url.type = "number" /\ url.value = "0"

\* A variant with another marker than the one the parser emits.
incompleteLink_Other == "streamdown:incomplete"

incompleteLink == "streamdown:incomplete-link"

\* The array `dangerous` of isDangerousProtocol.
dangerous ==
    {
     "javascript:", "data:", "vbscript:", "about:", "chrome:",
     "chrome-extension:", "moz-extension:", "file:", "blob:", "filesystem:",
     "jar:", "ms-appx:", "ms-appx-web:", "res:", "resource:", "app:",
     "intent:", "android-app:", "mailto:", "tel:", "sms:", "ftp:", "ws:",
     "wss:", "jscript:", "ecmascript:", "livescript:"
    }

\* A variant whose list lacks "ftp:".
isDangerousProtocol_NoFtp(protocol_) == toLowerCase(protocol_) \in dangerous \ {"ftp:"}

isDangerousProtocol(protocol_) == toLowerCase(protocol_) \in dangerous

\* A variant without the try blocks: the TypeError of the first constructor
\* call leaves the function.
parseUrl_Unguarded(url, defaultOrigin_) ==
    IF url.type # "string" THEN [threw |-> FALSE, url |-> NoURL]
    ELSE LET urlObject == URL(url.value, "")
         IN  [threw |-> ~urlObject.ok, url |-> urlObject]

\* A variant that never retries against the default origin.
parseUrl_NoBase(url, defaultOrigin_) ==
    IF url.type # "string" THEN [threw |-> FALSE, url |-> NoURL]
    ELSE [threw |-> FALSE, url |-> URL(url.value, "")]

\* parseUrl after its first constructor call gave urlObject: the catch block
\* runs when that call threw.
parseUrlCatch(urlObject, url, defaultOrigin_) ==
    IF urlObject.ok THEN [threw |-> FALSE, url |-> urlObject]
    ELSE IF defaultOrigin_ # ""
         THEN [threw |-> FALSE, url |-> URL(url.value, defaultOrigin_)]
         ELSE [threw |-> FALSE, url |-> NoURL]

\* parseUrl: [threw, url]; url.ok = FALSE is the null it returns.  Both
\* constructor calls sit in try blocks, so a TypeError never leaves it.
parseUrl(url, defaultOrigin_) ==
    IF url.type # "string" THEN [threw |-> FALSE, url |-> NoURL]
    ELSE parseUrlCatch(URL(url.value, ""), url, defaultOrigin_)

\* A variant that treats no input as path-relative.
isPathRelativeUrl_Never(url) == FALSE

isPathRelativeUrl(url) == url.type = "string" /\ startsWith(url.value, "/")

\* The alternatives of the third regular expression of hasSuspiciousPatterns.
suspiciousProtocols ==
    {
     "javascript", "data", "vbscript", "about", "chrome", "chrome-extension",
     "moz-extension", "file", "blob", "filesystem", "jar", "ms-appx",
     "ms-appx-web", "res", "resource", "app", "intent", "android-app",
     "mailto", "tel", "sms", "ftp", "ws", "wss", "jscript", "ecmascript",
     "livescript"
    }

\* A variant whose third expression lacks the \s* before the colon.
hasSuspiciousPatterns_NoSpace(url) ==
    LET lower == toLowerCase(url)
    IN  \/ IndexOfAny(url, {"\f"}) <= Len(url)
        \/ IndexOfAny(url, {"~"}) <= Len(url)
        \/ \E c \in 2..Len(url) :
             /\ CharAt(url, c) = ":"
             /\ \E name \in suspiciousProtocols :
                  /\ Len(name) <= c - 1
                  /\ SubSeq(lower, c - Len(name), c - 1) = name

\* The third regular expression of hasSuspiciousPatterns on url, lower its
\* lower-case form (the i flag folds ASCII case): some ":" follows, after white
\* space only (\s among the modelled characters), the end of an alternative.
matchesProtocol(url, lower) ==
    \E c \in 1..Len(url) :
        /\ CharAt(url, c) = ":"
        /\ \E e \in 1..(c - 1) :
             /\ \A k \in (e + 1)..(c - 1) : CharAt(url, k) \in C0Space
             /\ \E name \in suspiciousProtocols :
                  /\ Len(name) <= e
                  /\ SubSeq(lower, e - Len(name) + 1, e) = name

\* hasSuspiciousPatterns, on the raw string.
hasSuspiciousPatterns(url) ==
    \/ IndexOfAny(url, {"\f"}) <= Len(url)
    \/ IndexOfAny(url, {"~"}) <= Len(url)
    \/ matchesProtocol(url, toLowerCase(url))

\* A variant of the callback that compares the origins only.
prefixMatches_OriginOnly(parsedUrl, parsedPrefix) ==
    /\ parsedPrefix.ok
    /\ origin(parsedPrefix) = origin(parsedUrl)

\* The callback of allowedPrefixes.some(...), after the prefix was parsed.
prefixMatches(parsedUrl, parsedPrefix) ==
    /\ parsedPrefix.ok
    /\ origin(parsedPrefix) = origin(parsedUrl)
    /\ startsWith(href(parsedUrl), href(parsedPrefix))

\* A variant that takes the wildcard branch whatever the list holds.
includesWildcard_Always(allowedPrefixes_) == TRUE

\* allowedPrefixes.includes('*')
includesWildcard(allowedPrefixes_) ==
    \E i \in 1..Len(allowedPrefixes_) : allowedPrefixes_[i] = "*"

\* allowedPrefixes.some(callback) from the entry prefixes[1] on: "true",
\* "false", or "threw" when parsing a prefix threw.  someEntry has the parsed
\* first entry.
RECURSIVE some(_, _, _)
RECURSIVE someEntry(_, _, _, _)
someEntry(parsedUrl, parsedPrefix, rest, defaultOrigin_) ==
    IF parsedPrefix.threw THEN "threw"
    ELSE IF prefixMatches(parsedUrl, parsedPrefix.url) THEN "true"
    ELSE some(parsedUrl, rest, defaultOrigin_)

some(parsedUrl, prefixes, defaultOrigin_) ==
    IF prefixes = << >> THEN "false"
    ELSE someEntry(parsedUrl, parseUrl(Str(Head(prefixes)), defaultOrigin_), Tail(prefixes),
                   defaultOrigin_)

\* The two forms of the output, returned at line relative or line absolute.
output(parsedUrl, inputWasRelative, relative, absolute) ==
    IF inputWasRelative
    THEN [value |-> Str(pathname(parsedUrl) \o search(parsedUrl) \o hash(parsedUrl)),
          line |-> relative]
    ELSE [value |-> Str(href(parsedUrl)), line |-> absolute]

\* transformUrl from line 139 on: matched is what allowedPrefixes.some gave.
transformUrlMatched(parsedUrl, inputWasRelative, matched, allowedPrefixes_) ==
    IF matched = "threw" THEN [value |-> Thrown, line |-> 142]
    ELSE IF matched = "true" THEN output(parsedUrl, inputWasRelative, 153, 155)
    ELSE IF includesWildcard(allowedPrefixes_)
    THEN IF protocol(parsedUrl) # "https:" /\ protocol(parsedUrl) # "http:"
         THEN [value |-> Null, line |-> 162]
         ELSE output(parsedUrl, inputWasRelative, 165, 167)
    ELSE [value |-> Null, line |-> 170]

\* transformUrl from line 126 on: parsed is what parseUrl(url) gave.
transformUrlParsed(url, parsed, allowedPrefixes_, defaultOrigin_) ==
    IF parsed.threw THEN [value |-> Thrown, line |-> 125]
    ELSE IF ~parsed.url.ok THEN [value |-> Null, line |-> 126]
    ELSE IF isDangerousProtocol(protocol(parsed.url)) THEN [value |-> Null, line |-> 130]
    ELSE transformUrlMatched(parsed.url, isPathRelativeUrl(url),
                             some(parsed.url, allowedPrefixes_, defaultOrigin_),
                             allowedPrefixes_)

\* transformUrl: [value, line], the value returned (or Thrown) and the line of
\* the return statement taken.
transformUrl(url, allowedPrefixes_, defaultOrigin_) ==
    IF falsy(url) THEN [value |-> Null, line |-> 110]
    ELSE IF url = Str(incompleteLink) THEN [value |-> url, line |-> 114]
    ELSE IF url.type # "string" THEN [value |-> Null, line |-> 117]
    ELSE IF hasSuspiciousPatterns(url.value) THEN [value |-> Null, line |-> 121]
    ELSE transformUrlParsed(url, parseUrl(url, defaultOrigin_), allowedPrefixes_,
                            defaultOrigin_)

\* An optional option of validateMarkdownOptions: given or left out.
Given(v) == [defined |-> TRUE, v |-> v]

\* A variant that looks at the link prefixes only.
validateMarkdownOptions_LinkOnly(options) ==
    LET defaultOrigin_ == IF options.defaultOrigin.defined THEN options.defaultOrigin.v ELSE ""
        allowedLinkPrefixes ==
            IF options.allowedLinkPrefixes.defined THEN options.allowedLinkPrefixes.v ELSE << >>
        allowedImagePrefixes ==
            IF options.allowedImagePrefixes.defined THEN options.allowedImagePrefixes.v ELSE << >>
        hasSpecificLinkPrefixes ==
            \E i \in 1..Len(allowedLinkPrefixes) : allowedLinkPrefixes[i] # "*"
    IN  [threw |-> defaultOrigin_ = "" /\ hasSpecificLinkPrefixes,
         defaultOrigin |-> defaultOrigin_,
         allowedLinkPrefixes |-> allowedLinkPrefixes,
         allowedImagePrefixes |-> allowedImagePrefixes]

\* validateMarkdownOptions: [threw, defaultOrigin, allowedLinkPrefixes,
\* allowedImagePrefixes].  options.defaultOrigin is Given(string) or Missing,
\* the two lists Given(sequence) or MissingList.
validateMarkdownOptions(options) ==
    LET defaultOrigin_ == IF options.defaultOrigin.defined THEN options.defaultOrigin.v ELSE ""
        allowedLinkPrefixes ==
            IF options.allowedLinkPrefixes.defined THEN options.allowedLinkPrefixes.v ELSE << >>
        allowedImagePrefixes ==
            IF options.allowedImagePrefixes.defined THEN options.allowedImagePrefixes.v ELSE << >>
        every(list)   == \A i \in 1..Len(list) : list[i] = "*"
        hasSpecificLinkPrefixes  == Len(allowedLinkPrefixes) # 0 /\ ~every(allowedLinkPrefixes)
        hasSpecificImagePrefixes == Len(allowedImagePrefixes) # 0 /\ ~every(allowedImagePrefixes)
    IN  [threw |-> defaultOrigin_ = "" /\ (hasSpecificLinkPrefixes \/ hasSpecificImagePrefixes),
         defaultOrigin |-> defaultOrigin_,
         allowedLinkPrefixes |-> allowedLinkPrefixes,
         allowedImagePrefixes |-> allowedImagePrefixes]

\* ------------------------------------------------------ TokenParser.svelte
\*
\* The inline part of the token renderer.  A token is [type, href, text,
\* tokens]: tokens is Given(sequence of tokens) or MissingList.  A rendered
\* node is an element [tag, streamdown, href, src, title, alt, incomplete,
\* children, text]; href and src are Null where the element has no such
\* attribute, and a text node has the tag "#text".

Token(type, href_, text, tokens) ==
    [type |-> type, href |-> href_, text |-> text, tokens |-> tokens]

Element(tag, streamdown, href_, src, title, alt, incomplete, children) ==
    [tag |-> tag, streamdown |-> streamdown, href |-> href_, src |-> src, title |-> title,
     alt |-> alt, incomplete |-> incomplete, children |-> children, text |-> ""]

TextNode(text) ==
    [tag |-> "#text", streamdown |-> "", href |-> Null, src |-> Null, title |-> "",
     alt |-> "", incomplete |-> FALSE, children |-> << >>, text |-> text]

\* opts: the props, with their defaults ['*'], ['*'] and '', validated.
opts(p) ==
    validateMarkdownOptions(
        [defaultOrigin |-> IF p.defaultOrigin.defined THEN p.defaultOrigin ELSE Given(""),
         allowedLinkPrefixes |->
            IF p.allowedLinkPrefixes.defined THEN p.allowedLinkPrefixes ELSE Given(<< "*" >>),
         allowedImagePrefixes |->
            IF p.allowedImagePrefixes.defined THEN p.allowedImagePrefixes ELSE Given(<< "*" >>)])

\* A variant that builds the link transformer from the image prefixes.
linkTransformer_ImagePrefixes(o, href_) ==
    transformUrl(Str(href_), o.allowedImagePrefixes, o.defaultOrigin).value

\* linkTransformer(href): the closure over the link prefixes.
linkTransformer(o, href_) ==
    transformUrl(Str(href_), o.allowedLinkPrefixes, o.defaultOrigin).value

\* imageTransformer(src): the closure over the image prefixes.
imageTransformer(o, src) ==
    transformUrl(Str(src), o.allowedImagePrefixes, o.defaultOrigin).value

\* A link branch that marks no anchor as incomplete.
link_NotMarked(t, transformedUrl, children) ==
    IF transformedUrl # Null
    THEN Element("a", "link", transformedUrl, Null, "", "", FALSE, children)
    ELSE Element("span", "link", Null, Null, "Blocked URL: " \o t.href, "", FALSE,
                 children \o << TextNode(" [blocked]") >>)

\* The link branch: an anchor carrying the transformed URL, or a span with the
\* children, the text ' [blocked]' and the original URL in its title.
link(t, transformedUrl, children) ==
    IF transformedUrl # Null
    THEN Element("a", "link", transformedUrl, Null, "", "",
                 t.href = "streamdown:incomplete-link", children)
    ELSE Element("span", "link", Null, Null, "Blocked URL: " \o t.href, "", FALSE,
                 children \o << TextNode(" [blocked]") >>)

\* The image branch, alt being t.text || 'Image': an img carrying the
\* transformed URL, or a span with the placeholder text.
image(alt, transformedUrl) ==
    IF transformedUrl # Null
    THEN Element("img", "image", Null, transformedUrl, "", alt, FALSE, << >>)
    ELSE Element("span", "image", Null, Null, "", "", FALSE,
                 << TextNode("[Image blocked: " \o (IF alt # "" THEN alt ELSE "No description")
                             \o "]") >>)

\* inLine(tokens): one node for each token.  A text token with children
\* renders them in place ("#fragment"); strong renders its text only.
RECURSIVE inLine(_, _)
inLineToken(t, o) ==
    CASE t.type = "link" ->
            link(t, linkTransformer(o, t.href),
                 IF t.tokens.defined THEN inLine(t.tokens.v, o) ELSE << TextNode(t.text) >>)
      [] t.type = "image" ->
            image(IF t.text # "" THEN t.text ELSE "Image", imageTransformer(o, t.href))
      [] t.type = "del" ->
            Element("span", "strikethrough", Null, Null, "", "", FALSE,
                    IF t.tokens.defined THEN inLine(t.tokens.v, o) ELSE << TextNode(t.text) >>)
      [] t.type = "text" /\ t.tokens.defined ->
            Element("#fragment", "", Null, Null, "", "", FALSE, inLine(t.tokens.v, o))
      [] t.type = "strong" ->
            Element("span", "strong", Null, Null, "", "", FALSE, << TextNode(t.text) >>)
      [] OTHER -> TextNode(t.text)

inLine(tokens, o) == [i \in 1..Len(tokens) |-> inLineToken(tokens[i], o)]


\* ---------------------------------------------------------- parse-blocks.ts
\*
\* Markdown is a TLA+ string over the characters "$", "\n" and characters
\* that start no Markdown construct ("x", ":", letters).  A token is
\* [type, raw].

\* String.prototype.trimStart, trimEnd, trim and endsWith.
trimStart(s) == From(s, IndexNotIn(s, C0Space))
trimEnd(s) == SubSeq(s, 1, Last({i \in 1..Len(s) : CharAt(s, i) \notin C0Space}, 0))
trim(s) == trimEnd(trimStart(s))
endsWith(s, p) == Len(p) <= Len(s) /\ SubSeq(s, Len(s) - Len(p) + 1, Len(s)) = p

\* (s.match(/\$\$/g) || []).length: the matches are taken from left to right
\* and do not overlap.
RECURSIVE dollarCount(_)
dollarCount(s) ==
    IF Len(s) < 2 THEN 0
    ELSE IF startsWith(s, "$$") THEN 1 + dollarCount(From(s, 3))
    ELSE dollarCount(From(s, 2))

\* The length of the match of /^(d)\n(body)\n\1(?:\n|$)/ in s for the
\* delimiter d and a lazy body of at least min characters, 0 for no match: the
\* body ends at the first position followed by a line break, the delimiter
\* and a line break or the end of s.
shapeOf(s, d, min) ==
    First({e + 1 + Len(d) + (IF e + 1 + Len(d) = Len(s) THEN 0 ELSE 1) :
            e \in {b \in (Len(d) + 1 + min)..(Len(s) - Len(d) - 1) :
                    /\ SubSeq(s, b + 1, b + 1 + Len(d)) = "\n" \o d
                    /\ (b + 1 + Len(d) = Len(s) \/ CharAt(s, b + 2 + Len(d)) = "\n")}}, 0)

\* The same for (\${1,2}): two dollar signs, or else one.
shape(s, min) ==
    IF startsWith(s, "$$\n") THEN shapeOf(s, "$$", min)
    ELSE IF startsWith(s, "$\n") THEN shapeOf(s, "$", min)
    ELSE 0

\* blockKatexRegex.test(s) for /^(\${1,2})\n([\s\S]*?)\n\1(?:\n|$)/.
blockKatexRegex(s) == shape(s, 0) > 0

\* instance.lexer(src): the block lexer of marked with the KaTeX extension,
\* an external library, by its block rules for the modelled characters.  At
\* each block start it tries, in this order, the extension's block rule
\* /^(\${1,2})\n((?:\\[^]|[^\\])+?)\n\1(?:\n|$)/ (a blockKatex token), a run of
\* line breaks (a space token, but a single line break after a token is added
\* to that token's raw) and a paragraph: the lines up to a blank line or the
\* end.  Every character read becomes part of some raw.
RECURSIVE blockTokens(_, _)
pushToken(src, tokens_, type, n) ==
    blockTokens(From(src, n + 1), Append(tokens_, [type |-> type, raw |-> SubSeq(src, 1, n)]))

blockTokens(src, tokens_) ==
    IF src = "" THEN tokens_
    ELSE IF shape(src, 1) > 0 THEN pushToken(src, tokens_, "blockKatex", shape(src, 1))
    ELSE IF CharAt(src, 1) = "\n" /\ tokens_ # << >> /\ IndexNotIn(src, {"\n"}) = 2
    THEN blockTokens(From(src, 2), [tokens_ EXCEPT ![Len(tokens_)].raw = @ \o "\n"])
    ELSE IF CharAt(src, 1) = "\n" THEN pushToken(src, tokens_, "space", IndexNotIn(src, {"\n"}) - 1)
    ELSE pushToken(src, tokens_, "paragraph",
            First({i \in 1..Len(src) :
                    /\ CharAt(src, i) = "\n"
                    /\ (i = Len(src) \/ CharAt(src, i + 1) = "\n")}, Len(src) + 1) - 1)

lexer(src) == blockTokens(src, << >>)

\* A variant of the merge step that drops a lone closing delimiter.
mergeWithPrevious_Drop(mergedBlocks, previousBlock, currentBlock) ==
    IF trim(currentBlock) = "$$" THEN mergedBlocks ELSE Append(mergedBlocks, currentBlock)

\* A variant that merges a closing delimiter into an open block without
\* validating the concatenation.
mergeWithPrevious_Unvalidated(mergedBlocks, previousBlock, currentBlock) ==
    IF /\ endsWith(trimEnd(currentBlock), "$$")
       /\ startsWith(trimStart(previousBlock), "$$")
       /\ dollarCount(previousBlock) % 2 = 1
       /\ dollarCount(currentBlock) = 1
    THEN [mergedBlocks EXCEPT ![Len(mergedBlocks)] = previousBlock \o currentBlock]
    ELSE Append(mergedBlocks, currentBlock)

\* One pass of the merge loop for a block that has a predecessor: the two
\* checks "standalone $$" and "ends with $$", each with its continue when
\* the previous block is empty, and the push at the end.
mergeWithPrevious(mergedBlocks, previousBlock, currentBlock) ==
    IF trim(currentBlock) = "$$" /\ previousBlock = "" THEN mergedBlocks
    ELSE IF /\ trim(currentBlock) = "$$"
            /\ startsWith(trimStart(previousBlock), "$$")
            /\ dollarCount(previousBlock) % 2 = 1
            /\ blockKatexRegex(trim(previousBlock \o currentBlock))
    THEN [mergedBlocks EXCEPT ![Len(mergedBlocks)] = previousBlock \o currentBlock]
    ELSE IF endsWith(trimEnd(currentBlock), "$$") /\ previousBlock = "" THEN mergedBlocks
    ELSE IF /\ endsWith(trimEnd(currentBlock), "$$")
            /\ startsWith(trimStart(previousBlock), "$$")
            /\ dollarCount(previousBlock) % 2 = 1
            /\ ~startsWith(trimStart(currentBlock), "$$")
            /\ dollarCount(currentBlock) = 1
            /\ blockKatexRegex(trim(previousBlock \o currentBlock))
    THEN [mergedBlocks EXCEPT ![Len(mergedBlocks)] = previousBlock \o currentBlock]
    ELSE Append(mergedBlocks, currentBlock)

\* The merge loop from token i on.  extractMeta reads raw and type, which
\* every token of the lexer has.
RECURSIVE mergeLoop(_, _, _)
mergeLoop(tokensWithMeta, i, mergedBlocks) ==
    IF i > Len(tokensWithMeta) THEN mergedBlocks
    ELSE IF tokensWithMeta[i].type \in {"blockKatex", "inlineKatex"} \/ mergedBlocks = << >>
    THEN mergeLoop(tokensWithMeta, i + 1, Append(mergedBlocks, tokensWithMeta[i].raw))
    ELSE mergeLoop(tokensWithMeta, i + 1,
            mergeWithPrevious(mergedBlocks, mergedBlocks[Len(mergedBlocks)],
                              tokensWithMeta[i].raw))

\* The repairer, step (a): a block with an odd number of $$ is unterminated
\* block math and gets a closing delimiter, on a line of its own when a line
\* break follows the opening one (the block must lex as block math
\* afterwards).  With no line break after the opening delimiter the text
\* appended is closing: the delimiter alone, or a line break and the
\* delimiter.
closeMath(text, closing) ==
    IF dollarCount(text) % 2 = 0 THEN text
    ELSE IF \E i \in 1..Len(text) :
                /\ CharAt(text, i) = "\n"
                /\ \E j \in 1..(i - 2) : SubSeq(text, j, j + 1) = "$$"
    THEN text \o "\n$$"
    ELSE text \o closing

\* The occurrences of the two-character delimiter d in s, from left to
\* right and without overlap.
RECURSIVE delimiterCount(_, _)
delimiterCount(s, d) ==
    IF Len(s) < 2 THEN 0
    ELSE IF startsWith(s, d) THEN 1 + delimiterCount(From(s, 3), d)
    ELSE delimiterCount(From(s, 2), d)

\* A step that closes the delimiter whether one is open or not.
closeDelimiter_Always(text, d) == text \o d

\* Steps (d) and (f) for the delimiters ** and ~~: an odd number of them
\* leaves one open, which is closed at the end.
closeDelimiter(text, d) == IF delimiterCount(text, d) % 2 = 0 THEN text ELSE text \o d

\* Step (e) for the last "[" of the text, at position i, with j the position
\* of the first "]" after it, Len(text) + 1 for none: link text that is not
\* closed gets the marker as its destination, and so does a destination
\* that is not closed.
closeLinkAt(text, i, j) ==
    IF i = 0 THEN text
    ELSE IF j > Len(text) THEN text \o "](streamdown:incomplete-link)"
    ELSE IF /\ j < Len(text)
            /\ CharAt(text, j + 1) = "("
            /\ \A k \in (j + 2)..Len(text) : CharAt(text, k) # ")"
    THEN SubSeq(text, 1, j + 1) \o "streamdown:incomplete-link)"
    ELSE text

closeLink(text) ==
    closeLinkAt(text, LastIndexOfAny(text, {"["}),
                First({j \in 1..Len(text) : j > LastIndexOfAny(text, {"["})
                                            /\ CharAt(text, j) = "]"}, Len(text) + 1))

\* parseIncompleteMarkdown(text) for the modelled characters: the steps in
\* their order, math, emphasis, links, strikethrough.
parseIncompleteMarkdown(text, closing) ==
    closeDelimiter(closeLink(closeDelimiter(closeMath(text, closing), "**")), "~~")

\* A variant that repairs whatever the flag says.
processedBlocks_Always(mergedBlocks, shouldParseIncompleteMarkdown, closing) ==
    [i \in 1..Len(mergedBlocks) |-> parseIncompleteMarkdown(trim(mergedBlocks[i]), closing)]

\* A variant that trims and repairs complete math blocks as well.
processedBlocks_RepairMath(mergedBlocks, shouldParseIncompleteMarkdown, closing) ==
    IF shouldParseIncompleteMarkdown
    THEN [i \in 1..Len(mergedBlocks) |-> parseIncompleteMarkdown(trim(mergedBlocks[i]), closing)]
    ELSE mergedBlocks

\* processedBlocks: with repair, every block but a complete math block is
\* trimmed and repaired.
processedBlocks(mergedBlocks, shouldParseIncompleteMarkdown, closing) ==
    IF shouldParseIncompleteMarkdown
    THEN [i \in 1..Len(mergedBlocks) |->
            IF blockKatexRegex(mergedBlocks[i]) THEN mergedBlocks[i]
            ELSE parseIncompleteMarkdown(trim(mergedBlocks[i]), closing)]
    ELSE mergedBlocks

\* finalTokens: the tokens of the blocks from block i on, in order.
RECURSIVE finalTokens(_, _)
finalTokens(blocks, i) ==
    IF i > Len(blocks) THEN << >> ELSE lexer(blocks[i]) \o finalTokens(blocks, i + 1)

\* The blocks that are lexed again, and the tokens of a call that finds
\* nothing in the cache.
blocksOf(markdown, flag, closing) ==
    processedBlocks(mergeLoop(lexer(markdown), 1, << >>), flag, closing)

tokensOf(markdown, flag, closing) == finalTokens(blocksOf(markdown, flag, closing), 1)

\* The most entries the cache holds.  The source sets 50; the code compares
\* the size with it and nothing else, and the model fills a smaller cache.
MAX_CACHE_SIZE == 3

\* A variant of the eviction that deletes nothing.
evict_Never(cache) == cache

\* The eviction before an insertion: a full cache loses its first key,
\* unless that key is the empty string.
evict(cache) ==
    IF Len(cache) >= MAX_CACHE_SIZE /\ cache[1].key # "" THEN Tail(cache) ELSE cache

\* A variant of the cache key that leaves out the flag.
cacheKey_NoFlag(markdown, flag) == markdown \o ":"

\* The template string that makes the cache key.
cacheKey(markdown, flag) == markdown \o ":" \o (IF flag THEN "true" ELSE "false")

\* ------------------------------------------------- MermaidClass, Mermaid.svelte
\* A MermaidClass instance is a record of its fields, without the leading
\* underscore: chart, error ("" for null), isLoading, currentThemeMode
\* ("null", "light" or "dark"), currentSvg, lastValidSvg and chartCache, the
\* entries [key, svg, theme] of the Map in insertion order.

\* The SVG mermaid.render resolves with for a chart under a theme.
Svg(chart, theme) == "<svg>" \o chart \o "-" \o theme \o "</svg>"

\* processedChart; "" stands for null.
processedChart(m) == trim(m.chart)
displaySvg(m) == IF m.currentSvg # "" THEN m.currentSvg ELSE m.lastValidSvg
hasNoValidSvg(m) == m.currentSvg = "" /\ m.lastValidSvg = ""

\* The size the cache is cut back at (20 in the source).
MermaidMaxCacheSize == 2

\* _addToCache: a full cache loses its oldest entry first; then Map.set, where
\* a key the map holds keeps its place and a new one goes last.
addToCache(cache, entry) ==
    LET kept == IF Len(cache) >= MermaidMaxCacheSize THEN Tail(cache) ELSE cache
    IN  IF \E i \in 1..Len(kept) : kept[i].key = entry.key
        THEN [i \in 1..Len(kept) |-> IF kept[i].key = entry.key THEN entry ELSE kept[i]]
        ELSE Append(kept, entry)

\* _resetState
resetState(m) == [m EXCEPT !.error = "", !.isLoading = FALSE, !.currentSvg = ""]

\* The cache key _renderChart computes, and the entry it finds under it for
\* the current theme.
chartCacheKey(m) == processedChart(m) \o "-" \o m.currentThemeMode
cachedResult(m) ==
    SelectSeq(m.chartCache,
              LAMBDA e : e.key = chartCacheKey(m) /\ e.theme = m.currentThemeMode)

\* _renderChart up to its first await: nothing to render, a cache hit, or
\* the start of a render.
renderChart(m) ==
    IF processedChart(m) = "" THEN [m EXCEPT !.isLoading = FALSE]
    ELSE IF cachedResult(m) # << >>
    THEN [m EXCEPT !.currentSvg = cachedResult(m)[1].svg,
                   !.lastValidSvg = cachedResult(m)[1].svg,
                   !.isLoading = FALSE, !.error = ""]
    ELSE [m EXCEPT !.error = "", !.isLoading = TRUE]

\* The render _renderChart awaits: the chart, theme and key it captured.
\* A request served from the cache is kept as "cached"; settled says how
\* many renders had settled when this one did (0 before).
renderOf(m) ==
    [chart |-> processedChart(m), theme |-> m.currentThemeMode, key |-> chartCacheKey(m),
     state |-> IF cachedResult(m) # << >> THEN "cached" ELSE "pending", settled |-> 0]

\* A catch block that drops what was rendered before.
renderFails_Clear(m, message) ==
    [m EXCEPT !.error = message, !.isLoading = FALSE, !.currentSvg = "",
              !.lastValidSvg = ""]

\* The catch and finally blocks of _renderChart.
renderFails(m, message) ==
    [m EXCEPT !.error = IF hasNoValidSvg(m) THEN message ELSE @, !.isLoading = FALSE]

\* _renderChart after the render r resolved: the result is cached under the
\* captured key with the theme of the moment, and shown.
renderSucceeds(m, r) ==
    [m EXCEPT !.chartCache = addToCache(@, [key |-> r.key, svg |-> Svg(r.chart, r.theme),
                                            theme |-> m.currentThemeMode]),
              !.currentSvg = Svg(r.chart, r.theme),
              !.lastValidSvg = Svg(r.chart, r.theme),
              !.isLoading = FALSE]

\* The branch of Mermaid.svelte's markup that is rendered; the last test is
\* hasContent, Boolean(displaySvg).
panel(m) ==
    IF m.isLoading /\ hasNoValidSvg(m) THEN "loading"
    ELSE IF m.error # "" /\ hasNoValidSvg(m) THEN "error"
    ELSE IF displaySvg(m) # "" THEN "svg"
    ELSE "none"

\* -------------------------------------------- CodeBlock.svelte: highlighting
\* Two components highlight a code block in an effect: the one of
\* streamdown_marked ("streamdown", flag isMounted) and the one of
\* components/elements ("elements", flag cancelled, kept here as its
\* negation isMounted).  A block is [kind, mounted, destroyed, input,
\* lightHtml, darkHtml, isLoading]; an input is [code, language, themes].

\* What highlightCode resolves with for one theme.
Html(code, language, theme) ==
    "<pre class=" \o theme \o " " \o language \o ">" \o code \o "</pre>"

\* One run of the effect: the inputs it read and its flag.
effectRun(input) == [input |-> input, isMounted |-> TRUE, state |-> "pending"]

\* The function the effect returns, run before the next run and on destroy.
cleanup(runs) ==
    [i \in 1..Len(runs) |-> IF i = Len(runs) THEN [runs[i] EXCEPT !.isMounted = FALSE]
                            ELSE runs[i]]

\* The continuation committing whatever the flag says.
highlightResolves_Unchecked(b, run) ==
    [b EXCEPT !.lightHtml = Html(run.input.code, run.input.language, run.input.themes[1]),
              !.darkHtml = Html(run.input.code, run.input.language, run.input.themes[2]),
              !.isLoading = IF b.kind = "elements" THEN FALSE ELSE @]

\* The continuation after highlightCode resolved; only the elements
\* component has isLoading.
highlightResolves(b, run) ==
    IF run.isMounted
    THEN [b EXCEPT !.lightHtml = Html(run.input.code, run.input.language, run.input.themes[1]),
                   !.darkHtml = Html(run.input.code, run.input.language, run.input.themes[2]),
                   !.isLoading = IF b.kind = "elements" THEN FALSE ELSE @]
    ELSE b

\* The continuation after highlightCode rejected: the elements component
\* falls back to the plain code it has now, the other one has no handler.
highlightRejects(b, run) ==
    IF b.kind = "elements" /\ run.isMounted
    THEN [b EXCEPT !.lightHtml = "<pre><code>" \o b.input.code \o "</code></pre>",
                   !.darkHtml = "<pre><code>" \o b.input.code \o "</code></pre>",
                   !.isLoading = FALSE]
    ELSE b

\* ------------------------------------------- highlighter.ts: HighlighterManager
\* A promise is named by the number of the highlightCode call that made it,
\* 0 for null.  A highlighter is present or not; themes and languages are
\* names.

\* isLanguageSupported: the languages shiki bundles.
isLanguageSupported(language) == language \in {"js", "py"}

needsLightRecreation(m, themes) == ~m.lightHighlighter \/ m.lightTheme # themes[1]

needsDarkRecreation(m, themes) == ~m.darkHighlighter \/ m.darkTheme # themes[2]

\* loadedLanguages after the clear() of a theme change.
loadedAtStart(m, themes) ==
    IF needsLightRecreation(m, themes) \/ needsDarkRecreation(m, themes)
    THEN {} ELSE m.loadedLanguages

needsLanguageLoad(m, themes, language) ==
    language \notin loadedAtStart(m, themes) /\ isLanguageSupported(language)

\* The awaits a run of ensureHighlightersInitialized goes through, decided by
\* the three flags it computes before the first of them.
awaitsOf(m, themes, language) ==
    (IF needsLightRecreation(m, themes) THEN << "createLight" >>
     ELSE IF needsLanguageLoad(m, themes, language) THEN << "loadLight" >> ELSE << >>)
    \o (IF needsDarkRecreation(m, themes) THEN << "createDark" >>
        ELSE IF needsLanguageLoad(m, themes, language) THEN << "loadDark" >> ELSE << >>)

\* A run of ensureHighlightersInitialized from its call to its first await,
\* or to its end when it awaits nothing.
NoRun == [state |-> "none", awaits |-> << >>, needsLanguageLoad |-> FALSE]

ensureHighlightersInitialized(m, themes, language) ==
    [state |-> IF awaitsOf(m, themes, language) = << >> THEN "fulfilled" ELSE "running",
     awaits |-> awaitsOf(m, themes, language),
     needsLanguageLoad |-> needsLanguageLoad(m, themes, language)]

\* The manager after line 102 of the call c: the run has cleared the loaded
\* languages if it recreates a highlighter, and its promise is stored.
initializing(m, c, themes) ==
    [m EXCEPT !.loadedLanguages = loadedAtStart(m, themes), !.initializationPromise = c]

\* The manager after the await named step of a run has returned.
afterAwait(m, step, themes, language) ==
    CASE step = "createLight" ->
           [m EXCEPT !.lightHighlighter = TRUE, !.lightTheme = themes[1],
                     !.loadedLanguages =
                         IF isLanguageSupported(language) THEN @ \cup {language} ELSE @]
      [] step = "createDark" -> [m EXCEPT !.darkHighlighter = TRUE, !.darkTheme = themes[2]]
      [] OTHER -> m

\* The manager at the end of a run.
afterRun(m, run, language) ==
    IF run.needsLanguageLoad THEN [m EXCEPT !.loadedLanguages = @ \cup {language}] ELSE m

\* The elements of a set of numbers in ascending order.
RECURSIVE Ascending(_)
Ascending(S) ==
    IF S = {} THEN << >>
    ELSE << CHOOSE x \in S : \A y \in S : x <= y >>
         \o Ascending(S \ {CHOOSE x \in S : \A y \in S : x <= y})

\* The calls suspended on the promise p, in the order they began to await
\* it: the call that made it, at line 103, and then the calls that found it
\* stored, at line 98.
reactions(calls, p) ==
    Ascending({c \in 1..Len(calls) :
                 calls[c].awaiting = p /\ calls[c].pc \in {"98", "103"}})

\* ------------------------------------------------------ the state machine

VARIABLES
    transformer,  \* the closure of createHardenedUrlTransformer:
                  \* [created, allowedPrefixes, defaultOrigin]
    url,          \* the argument of the last transformUrl call
    result,       \* what that call returned: [value, line] of transformUrl
    earlier,      \* the calls made on the closure so far, << argument, outcome >>
    options,      \* the argument of the last validateMarkdownOptions call
    validated,    \* what that call returned (or that it threw)
    props,        \* TokenParser: the props the component was created with
    tokens,       \* TokenParser: the inline tokens of the paragraph rendered
    rendered,     \* TokenParser: the nodes rendered for them (or that it threw)
    tokenCache,   \* parse-blocks: the cache, entries [key, value] in insertion order
    call,         \* parse-blocks: the last call of parseMarkdownIntoTokens
    returned,     \* parse-blocks: what that call returned (or that it threw)
    recent,       \* parse-blocks: the cache keys in the order of their last use
    closing,      \* parse-blocks: what the repairer appends to unterminated math
    repaired,     \* the repairer: its last call, [called, text, result]
    merging,      \* a call of parseMarkdownIntoTokens followed through its merge loop
    mermaid,      \* MermaidClass: the fields of the instance
    renders,      \* MermaidClass: the renders asked for, [chart, theme, key, state]
    block,        \* CodeBlock: the component and the HTML it shows
    highlights,   \* CodeBlock: the runs of its effect, [input, isMounted, state]
    manager,      \* the shared HighlighterManager, its fields
    jobs          \* its highlightCode calls and the queue of their continuations

hardenVars == << transformer, url, result, earlier, options, validated >>
renderVars == << props, tokens, rendered >>
parseVars == << tokenCache, call, returned, recent, closing, repaired, merging >>
mermaidVars == << mermaid, renders >>
highlightVars == << block, highlights, manager, jobs >>

vars == << hardenVars, renderVars, parseVars, mermaidVars, highlightVars >>

\* The longest allow-list and the deepest path the model draws.
MaxPrefixes == 2
MaxSegments == 2

\* Allow-list entries: an origin, a path prefix relative to the default origin,
\* an unparseable prefix, a prefix of an always-blocked scheme, the wildcard.
PrefixPool == << "https://a.com/", "/p/", "https://", "ftp://a.com/", "*" >>

\* The allow-lists: the entries of PrefixPool at the positions of S, in order.
Pick(S) ==
    [k \in 1..Cardinality(S) |->
        PrefixPool[CHOOSE i \in S : Cardinality({j \in S : j <= i}) = k]]

AllowLists ==
    {Pick(S) : S \in {T \in SUBSET (1..Len(PrefixPool)) : Cardinality(T) <= MaxPrefixes}}

\* Default origins: none, a web origin, a second web origin that no allow-list
\* entry names, the origin of a hybrid-app web view, an origin of an
\* always-blocked scheme.
Origins == {"", "https://a.com", "https://b.com", "cap://h", "ftp://a.com"}

\* Paths of at most n segments, each preceded by "/".
RECURSIVE Paths(_)
Paths(n) ==
    IF n = 0 THEN {""}
    ELSE Paths(n - 1) \cup {p \o "/" \o seg : p \in Paths(n - 1), seg \in {"p", ".."}}

\* URL strings built from a scheme and authority (or none: a relative
\* reference), a path and an optional query and fragment.
BuiltInputs ==
    {head \o path \o tail :
        head \in {"https://a.com", "https://a.com.evil.com", "http://a.com", "https://u@A.com",
                  "cap://h", "f\ttp://a.com", "//a.com", ""},
        path \in Paths(MaxSegments),
        tail \in {"", "?k=v#s"}}

\* Each blocked scheme once, and the attack strings of the test suites.
ListedInputs ==
    {name \o ":x" : name \in suspiciousProtocols}
    \cup {"streamdown:incomplete-link", "streamdown:x", " ", "#", "?", "*", "*x", "/*x", "x", "../x",
          "JavaScript:alert(1)", "javascript :alert(1)", "javascript\t:alert(1)",
          "javascript\n:alert(1)", " javascript:alert(1)", "java\tscript:alert(1)",
          "\fjavascript:alert(1)", "javascript\f:alert(1)",
          "https://a.com/\fx", "https://a.~com/", "https://a.com/p/~", "https://a.com/news:x",
          "https://myapp:80/p/", "https://a.com:8080/p/", "https://a.com\\p\\x",
          "ht@tp://a.com", "https://", "https:", "https:p/x", "file:///etc/passwd",
          "blob:https://a.com/p/", "itms://a.com/p/", "cap://h/*x", "cap://h.evil/p/",
          "data:text/html,x", "mailto:u@a.com", "/p/x?k=v", "/p/x#s", "/p/x?", "\\p\\x",
          "\t/p/x", "/pq", "/pq/x", "https://a.com/pq", "https://a.com/p/x/../../pq",
          "/", "/p/", "//", "https://a.com/", "https://a.com/p/", "https://a.com/p//x",
          "https://a.com.evil.com/", "https://a.com/p/../", "cap://h/p/"}

\* Every argument the model passes to a transformer.
Inputs ==
    {Str(s) : s \in BuiltInputs \cup ListedInputs}
    \cup {Null, Undefined, Num("0"), Num("123"), Obj}

NoCall == [value |-> Null, line |-> 0]
Missing == [defined |-> FALSE, v |-> ""]
MissingList == [defined |-> FALSE, v |-> << >>]
NoOptions ==
    [defaultOrigin |-> Missing, allowedLinkPrefixes |-> MissingList,
     allowedImagePrefixes |-> MissingList]
NotValidated ==
    [threw |-> FALSE, defaultOrigin |-> "", allowedLinkPrefixes |-> << >>,
     allowedImagePrefixes |-> << >>]

HardenIdle ==
    /\ transformer = [created |-> FALSE, allowedPrefixes |-> << >>, defaultOrigin |-> ""]
    /\ url = Undefined
    /\ result = NoCall
    /\ earlier = << >>
    /\ options = NoOptions
    /\ validated = NotValidated

RenderIdle ==
    /\ props = [mounted |-> FALSE, options |-> NoOptions]
    /\ tokens = << >>
    /\ rendered = [threw |-> FALSE, nodes |-> << >>]

\* No call followed yet.
NotMerging ==
    [stage |-> "idle", tokensWithMeta |-> << >>, shouldParseIncompleteMarkdown |-> FALSE,
     i |-> 0, mergedBlocks |-> << >>, repairerCalls |-> << >>, processedBlocks |-> << >>]

ParseIdle ==
    /\ tokenCache = << >>
    /\ call = [made |-> FALSE, markdown |-> "", flag |-> FALSE, failAt |-> 0]
    /\ returned = [threw |-> FALSE, hit |-> FALSE, tokens |-> << >>]
    /\ recent = << >>
    /\ repaired = [called |-> FALSE, text |-> "", result |-> ""]
    /\ merging = NotMerging

\* new MermaidClass(): no chart, no theme, nothing rendered.
MermaidIdle ==
    /\ mermaid = [chart |-> "", error |-> "", isLoading |-> FALSE,
                  currentThemeMode |-> "null", currentSvg |-> "", lastValidSvg |-> "",
                  chartCache |-> << >>]
    /\ renders = << >>

\* No code block yet; the elements component starts with isLoading set, the
\* other one has no such field.
HighlightIdle ==
    /\ block = [kind |-> "", mounted |-> FALSE, destroyed |-> FALSE,
                input |-> [code |-> "", language |-> "", themes |-> << "", "" >>],
                lightHtml |-> "", darkHtml |-> "", isLoading |-> TRUE]
    /\ highlights = << >>
    /\ manager = [lightHighlighter |-> FALSE, darkHighlighter |-> FALSE,
                   lightTheme |-> "null", darkTheme |-> "null",
                   loadedLanguages |-> {}, initializationPromise |-> 0]
    /\ jobs = [calls |-> << >>, microtasks |-> << >>, draining |-> FALSE]

\* Nothing has been called and nothing has been rendered.
Init ==
    /\ HardenIdle
    /\ RenderIdle
    /\ ParseIdle
    /\ closing = "$$"
    /\ MermaidIdle
    /\ HighlightIdle

\* The same for either way of closing unterminated math.
InitParse ==
    /\ HardenIdle
    /\ RenderIdle
    /\ ParseIdle
    /\ closing \in {"$$", "\n$$"}
    /\ MermaidIdle
    /\ HighlightIdle

\* createHardenedUrlTransformer(allowedPrefixes, defaultOrigin): the closure
\* keeps both for every later call.
createHardenedUrlTransformer(allowedPrefixes_, defaultOrigin_) ==
    /\ ~transformer.created
    /\ transformer' = [created |-> TRUE, allowedPrefixes |-> allowedPrefixes_,
                       defaultOrigin |-> defaultOrigin_]
    /\ UNCHANGED << url, result, earlier, options, validated >>
    /\ UNCHANGED << renderVars, parseVars, mermaidVars, highlightVars >>

\* A call transformer(u) of the closure.  A behaviour follows one transformer
\* through one call: transformUrl reads its argument and the closure only.
TransformUrl(u) ==
    /\ transformer.created
    /\ result = NoCall
    /\ url' = u
    /\ result' = transformUrl(u, transformer.allowedPrefixes, transformer.defaultOrigin)
    /\ earlier' = Append(earlier, << u, result' >>)
    /\ UNCHANGED << transformer, options, validated >>
    /\ UNCHANGED << renderVars, parseVars, mermaidVars, highlightVars >>

\* The most calls made on one closure.
MaxCalls == 3

\* A later call that answers null once a call has answered null.
TransformUrlAgain_Sticky(u) ==
    /\ transformer.created
    /\ result # NoCall
    /\ Len(earlier) < MaxCalls
    /\ url' = u
    /\ result' = IF result.value = Null THEN result
                 ELSE transformUrl(u, transformer.allowedPrefixes, transformer.defaultOrigin)
    /\ earlier' = Append(earlier, << u, result' >>)
    /\ UNCHANGED << transformer, options, validated >>
    /\ UNCHANGED << renderVars, parseVars, mermaidVars, highlightVars >>

\* A later call transformer(u) of the same closure.
TransformUrlAgain(u) ==
    /\ transformer.created
    /\ result # NoCall
    /\ Len(earlier) < MaxCalls
    /\ url' = u
    /\ result' = transformUrl(u, transformer.allowedPrefixes, transformer.defaultOrigin)
    /\ earlier' = Append(earlier, << u, result' >>)
    /\ UNCHANGED << transformer, options, validated >>
    /\ UNCHANGED << renderVars, parseVars, mermaidVars, highlightVars >>

\* A call validateMarkdownOptions(o).  A behaviour holds one call: the function
\* reads its argument only.
ValidateMarkdownOptions(o) ==
    /\ options = NoOptions /\ validated = NotValidated
    /\ options' = o
    /\ validated' = validateMarkdownOptions(o)
    /\ UNCHANGED << transformer, url, result, earlier >>
    /\ UNCHANGED << renderVars, parseVars, mermaidVars, highlightVars >>

OptionsInputs ==
    [defaultOrigin : {Missing} \cup {Given(o) : o \in Origins},
     allowedLinkPrefixes : {MissingList} \cup {Given(l) : l \in AllowLists},
     allowedImagePrefixes : {MissingList} \cup {Given(l) : l \in AllowLists}]

Next ==
    \/ \E l \in AllowLists, o \in Origins : createHardenedUrlTransformer(l, o)
    \/ \E u \in Inputs : TransformUrl(u)

Spec == Init /\ [][Next]_vars

\* One closure called again and again: an accepted URL, a root-relative
\* one, a blocked scheme and a foreign origin.
RepeatedInputs ==
    {Str("https://a.com/p"), Str("/p/x"), Str("javascript:alert(1)"), Str("https://b.com/x")}

NextRepeated ==
    \/ \E l \in AllowLists, o \in Origins : createHardenedUrlTransformer(l, o)
    \/ \E u \in RepeatedInputs : TransformUrl(u)
    \/ \E u \in RepeatedInputs : TransformUrlAgain(u)

SpecRepeated == Init /\ [][NextRepeated]_vars

NextValidate == \E o \in OptionsInputs : ValidateMarkdownOptions(o)

SpecValidate == Init /\ [][NextValidate]_vars

\* ------------------------------------------ the renderer as a state machine

\* The props a page passes: each list left out, empty, the wildcard or one
\* origin; the default origin left out or given.
PropsInputs ==
    [defaultOrigin : {Missing, Given("https://a.com")},
     allowedLinkPrefixes :
        {MissingList, Given(<< >>), Given(<< "*" >>), Given(<< "https://a.com/" >>)},
     allowedImagePrefixes :
        {MissingList, Given(<< >>), Given(<< "*" >>), Given(<< "https://a.com/" >>)}]

\* The inline content of a paragraph: a link with and without child tokens, a
\* link around an image, an image with and without alt text, a struck-out
\* link, a nested text token, and emphasis whose text reads like a link.
InlineInputs ==
    LET Hrefs == {"", "x", "/p/x", "https://a.com/p", "https://b.com/x", "javascript:alert(1)",
                  "streamdown:incomplete-link"}
    IN
    {<< Token("link", h, "t", Given(<< Token("text", "", "t", MissingList) >>)) >> : h \in Hrefs}
    \cup {<< Token("link", h, "t", MissingList) >> : h \in Hrefs}
    \cup {<< Token("link", h, "", Given(<< Token("image", s, "", MissingList) >>)) >> :
            h \in Hrefs, s \in {"https://a.com/i.png", "https://b.com/i.png"}}
    \cup {<< Token("image", h, alt, MissingList) >> : h \in Hrefs, alt \in {"", "alt"}}
    \cup {<< Token("del", "", "", Given(<< Token("link", h, "t", MissingList) >>)),
             Token("image", h, "alt", MissingList) >> : h \in Hrefs}
    \cup {<< Token("text", "", "", Given(<< Token("link", h, "t", MissingList) >>)) >> :
            h \in Hrefs}
    \cup {<< Token("strong", "", "[t](https://a.com/p)", MissingList) >>}

\* The component is created with its props.
Mount(p) ==
    /\ ~props.mounted
    /\ props' = [mounted |-> TRUE, options |-> p]
    /\ UNCHANGED << tokens, rendered >>
    /\ UNCHANGED << hardenVars, parseVars, mermaidVars, highlightVars >>

\* The component renders a paragraph token: <p> around the inline nodes, and
\* nothing when validateMarkdownOptions throws.  A behaviour holds one render:
\* the markup reads the token and the props only.
RenderParagraph(ts) ==
    /\ props.mounted
    /\ tokens = << >>
    /\ tokens' = ts
    /\ rendered' =
        IF opts(props.options).threw THEN [threw |-> TRUE, nodes |-> << >>]
        ELSE [threw |-> FALSE, nodes |-> inLine(ts, opts(props.options))]
    /\ UNCHANGED props
    /\ UNCHANGED << hardenVars, parseVars, mermaidVars, highlightVars >>

NextRender ==
    \/ \E p \in PropsInputs : Mount(p)
    \/ \E ts \in InlineInputs : RenderParagraph(ts)

SpecRender == Init /\ [][NextRender]_vars

\* ---------------------------------- parseMarkdownIntoTokens as a state machine

\* The most pieces of a document.
MaxPieces == 5

\* Documents: up to n pieces, each a block-math delimiter, a letter or a line
\* break.
RECURSIVE Documents(_)
Documents(n) ==
    IF n = 0 THEN {""}
    ELSE Documents(n - 1) \cup {d \o piece : d \in Documents(n - 1), piece \in {"$$", "x", "\n"}}

\* The calls that share a cache: two paragraphs and one, each with and
\* without repair, and a text that ends like a cache key.
CachePool ==
    {<< "x\n\nx", TRUE >>, << "x\n\nx", FALSE >>, << "x", TRUE >>, << "x", FALSE >>,
     << "x:true", FALSE >>}

\* parseMarkdownIntoTokens(markdown, flag).  failAt says where the lexer throws
\* in a call that reaches it: 0 for nowhere, 1 for the first lex, k + 1 for
\* the lex of the k-th processed block.  The cache is a Map: its entries in
\* the order of insertion.  recent lists the keys by their last use, a hit or
\* an insertion, the latest last.
ParseMarkdownIntoTokens(markdown, flag, failAt) ==
    /\ call' = [made |-> TRUE, markdown |-> markdown, flag |-> flag, failAt |-> failAt]
    /\ IF \E i \in 1..Len(tokenCache) : tokenCache[i].key = cacheKey(markdown, flag)
       THEN /\ failAt = 0
            /\ returned' =
                [threw |-> FALSE, hit |-> TRUE,
                 tokens |-> tokenCache[CHOOSE i \in 1..Len(tokenCache) :
                                        tokenCache[i].key = cacheKey(markdown, flag)].value]
            /\ recent' = SelectSeq(recent, LAMBDA k : k # cacheKey(markdown, flag))
                            \o << cacheKey(markdown, flag) >>
            /\ UNCHANGED tokenCache
       ELSE /\ failAt <= 1 + Len(blocksOf(markdown, flag, closing))
            /\ IF failAt # 0
               THEN /\ returned' = [threw |-> TRUE, hit |-> FALSE, tokens |-> << >>]
                    /\ UNCHANGED << tokenCache, recent >>
               ELSE /\ returned' =
                        [threw |-> FALSE, hit |-> FALSE,
                         tokens |-> tokensOf(markdown, flag, closing)]
                    /\ tokenCache' =
                        Append(evict(tokenCache),
                               [key |-> cacheKey(markdown, flag),
                                value |-> tokensOf(markdown, flag, closing)])
                    /\ recent' = SelectSeq(recent, LAMBDA k : k # cacheKey(markdown, flag))
                                    \o << cacheKey(markdown, flag) >>
    /\ UNCHANGED << closing, repaired, merging >>
    /\ UNCHANGED << hardenVars, renderVars, mermaidVars, highlightVars >>

\* One call on an empty cache, for every document and for two paragraphs
\* that hold closed math each.
NextParse ==
    \E markdown \in Documents(MaxPieces) \cup {"$$x$$\n\n$$x$$"}, flag \in BOOLEAN,
       failAt \in 0..(MaxPieces + 1) :
        ~call.made /\ ParseMarkdownIntoTokens(markdown, flag, failAt)

SpecParse == InitParse /\ [][NextParse]_vars

\* Any number of calls from CachePool, the lexer throwing in none.
NextCache == \E c \in CachePool : ParseMarkdownIntoTokens(c[1], c[2], 0)

SpecCache == Init /\ [][NextCache]_vars

\* ------------------------------------------------ the repairer as a state machine

\* The most pieces of a text handed to the repairer.
MaxTextPieces == 4

\* Texts: up to n pieces, each a delimiter of bold, strikethrough or block
\* math, the start or the end of link text, the start or the end of a link
\* destination, or a letter.
RECURSIVE Texts(_)
Texts(n) ==
    IF n = 0 THEN {""}
    ELSE Texts(n - 1)
         \cup {t \o piece : t \in Texts(n - 1),
                             piece \in {"**", "~~", "$$", "[a", "]", "(u", ")", "a"}}

\* parseIncompleteMarkdown(text), as processedBlocks calls it on a block.
Repair(text) ==
    /\ ~repaired.called
    /\ repaired' = [called |-> TRUE, text |-> text,
                    result |-> parseIncompleteMarkdown(text, closing)]
    /\ UNCHANGED << tokenCache, call, returned, recent, closing, merging >>
    /\ UNCHANGED << hardenVars, renderVars, mermaidVars, highlightVars >>

NextRepair == ~repaired.called /\ \E text \in Texts(MaxTextPieces) : Repair(text)

SpecRepair == InitParse /\ [][NextRepair]_vars

\* ------------------------------------------ the merge loop, pass by pass

MaxTokens == 3

\* Tokens of the first lex, as tokensWithMeta keeps them: paragraphs that
\* open block math, close it, do both or neither, with and without the line
\* break marked adds to a raw, blank lines, and a block the KaTeX extension
\* has already recognised.
LexedTokens ==
    {[type |-> "paragraph", raw |-> r] :
        r \in {"$$", "$$\n", "$$\nx", "$$\nx\n", "$$x\n", "x\n$$", "x", "$$x$$", " $$\nx\n"}}
    \cup {[type |-> "space", raw |-> "\n\n"], [type |-> "blockKatex", raw |-> "$$\nx\n$$\n"]}

RECURSIVE TokenLists(_)
TokenLists(n) ==
    IF n = 0 THEN {<< >>}
    ELSE TokenLists(n - 1)
         \cup {Append(l, t) : l \in {k \in TokenLists(n - 1) : Len(k) = n - 1}, t \in LexedTokens}

\* The arguments of parseIncompleteMarkdown in the map over mergedBlocks, in
\* order: one call for each block that is not a complete math block.
RECURSIVE repairerCalls(_, _)
repairerCalls(mergedBlocks, i) ==
    IF i > Len(mergedBlocks) THEN << >>
    ELSE (IF blockKatexRegex(mergedBlocks[i]) THEN << >> ELSE << trim(mergedBlocks[i]) >>)
         \o repairerCalls(mergedBlocks, i + 1)

\* parseMarkdownIntoTokens up to the loop: the first lex has given tokens.
StartMerge(tokens_, flag) ==
    /\ merging.stage = "idle"
    /\ merging' = [NotMerging EXCEPT !.stage = "merge", !.tokensWithMeta = tokens_,
                                      !.shouldParseIncompleteMarkdown = flag, !.i = 1]
    /\ UNCHANGED << tokenCache, call, returned, recent, closing, repaired >>
    /\ UNCHANGED << hardenVars, renderVars, mermaidVars, highlightVars >>

\* One pass of the loop, for the token at i.
MergePass ==
    /\ merging.stage = "merge"
    /\ merging.i <= Len(merging.tokensWithMeta)
    /\ merging' = [merging EXCEPT
                      !.i = @ + 1,
                      !.mergedBlocks =
                          mergeLoop(<< merging.tokensWithMeta[merging.i] >>, 1, @)]
    /\ UNCHANGED << tokenCache, call, returned, recent, closing, repaired >>
    /\ UNCHANGED << hardenVars, renderVars, mermaidVars, highlightVars >>

\* After the loop: the map over mergedBlocks that gives processedBlocks, the
\* blocks the final lex reads.
ProcessBlocks ==
    /\ merging.stage = "merge"
    /\ merging.i > Len(merging.tokensWithMeta)
    /\ merging' = [merging EXCEPT
                      !.stage = "processed",
                      !.repairerCalls =
                          IF merging.shouldParseIncompleteMarkdown
                          THEN repairerCalls(merging.mergedBlocks, 1) ELSE << >>,
                      !.processedBlocks =
                          processedBlocks(merging.mergedBlocks,
                                          merging.shouldParseIncompleteMarkdown, closing)]
    /\ UNCHANGED << tokenCache, call, returned, recent, closing, repaired >>
    /\ UNCHANGED << hardenVars, renderVars, mermaidVars, highlightVars >>

NextMerge ==
    \/ /\ merging.stage = "idle"
       /\ \E tokens_ \in TokenLists(MaxTokens), flag \in BOOLEAN : StartMerge(tokens_, flag)
    \/ MergePass
    \/ ProcessBlocks

SpecMerge == InitParse /\ [][NextMerge]_vars

\* ----------------------------------------- Streamdown.svelte as a state machine

\* The inline tokens marked gives a paragraph over letters, spaces and
\* links: text up to the first "[text](href)", the link with its text as its
\* only child, and the tokens of the rest.  i is the position of the first
\* "[", j that of the first "](" after it and k that of the first ")" after
\* that, each Len(src) + 1 for none.
RECURSIVE inlineTokens(_)
inlineTokensAt(src, i, j, k) ==
    IF src = "" THEN << >>
    ELSE IF k > Len(src) THEN << Token("text", "", src, MissingList) >>
    ELSE (IF i > 1 THEN << Token("text", "", SubSeq(src, 1, i - 1), MissingList) >>
          ELSE << >>)
         \o << Token("link", SubSeq(src, j + 2, k - 1), SubSeq(src, i + 1, j - 1),
                     Given(<< Token("text", "", SubSeq(src, i + 1, j - 1), MissingList) >>)) >>
         \o inlineTokens(From(src, k + 1))

inlineTokensFrom(src, i, j) ==
    inlineTokensAt(src, i, j,
                   First({k \in 1..Len(src) : k > j + 1 /\ CharAt(src, k) = ")"}, Len(src) + 1))

inlineTokens(src) ==
    inlineTokensFrom(src, IndexOfAny(src, {"["}),
                     First({j \in 1..(Len(src) - 1) : j > IndexOfAny(src, {"["})
                                                /\ SubSeq(src, j, j + 1) = "]("},
                           Len(src) + 1))

\* The content a page passes: one paragraph each, with a link that stops
\* in its text or in its destination, complete links and no link.
Contents ==
    {"Text with incomplete [link", "[link", "see [link](https://a.com/p",
     "see [link](https://b.com/x) and more", "[link](https://a.com/p)", "no link",
     "**bold [link"}

\* TokenParser renders the first token Streamdown got for its content, a
\* paragraph, with the props Streamdown hands on.
RenderToken ==
    /\ props.mounted /\ call.made /\ ~returned.threw
    /\ tokens = << >>
    /\ returned.tokens # << >>
    /\ tokens' = inlineTokens(returned.tokens[1].raw)
    /\ rendered' =
        IF opts(props.options).threw THEN [threw |-> TRUE, nodes |-> << >>]
        ELSE [threw |-> FALSE,
              nodes |-> inLine(inlineTokens(returned.tokens[1].raw), opts(props.options))]
    /\ UNCHANGED props
    /\ UNCHANGED << hardenVars, parseVars, mermaidVars, highlightVars >>

\* Streamdown is created with its props, parses its content and renders it.
NextContent ==
    \/ \E p \in PropsInputs : Mount(p)
    \/ \E content \in Contents, flag \in BOOLEAN :
           props.mounted /\ ~call.made /\ ParseMarkdownIntoTokens(content, flag, 0)
    \/ RenderToken

SpecContent == Init /\ [][NextContent]_vars

\* ------------------------------------------- MermaidClass as a state machine
\* The most renders one instance is asked for.
MaxRenders == 2

Charts == {"", " ", "A", " A", "B"}

\* The chart setter.
SetChart(value) ==
    /\ IF trim(value) # "" /\ mermaid.currentThemeMode # "null"
       THEN /\ Len(renders) < MaxRenders
            /\ mermaid' = renderChart([mermaid EXCEPT !.chart = value])
            /\ renders' = Append(renders, renderOf([mermaid EXCEPT !.chart = value]))
       ELSE /\ mermaid' = resetState([mermaid EXCEPT !.chart = value])
            /\ UNCHANGED renders
    /\ UNCHANGED << hardenVars, renderVars, parseVars, highlightVars >>

\* setThemeMode(isDark)
SetThemeMode(isDark) ==
    /\ mermaid.currentThemeMode # (IF isDark THEN "dark" ELSE "light")
    /\ IF processedChart(mermaid) # ""
       THEN /\ Len(renders) < MaxRenders
            /\ mermaid' = renderChart([mermaid EXCEPT
                              !.currentThemeMode = IF isDark THEN "dark" ELSE "light"])
            /\ renders' = Append(renders, renderOf([mermaid EXCEPT
                              !.currentThemeMode = IF isDark THEN "dark" ELSE "light"]))
       ELSE /\ mermaid' = [mermaid EXCEPT
                              !.currentThemeMode = IF isDark THEN "dark" ELSE "light"]
            /\ UNCHANGED renders
    /\ UNCHANGED << hardenVars, renderVars, parseVars, highlightVars >>

\* The render i settles: mermaid.render resolves, the renderer or the render
\* rejects, or the five seconds of _renderWithTimeout pass first.
RenderSettles(i, outcome) ==
    /\ renders[i].state = "pending"
    /\ mermaid' = CASE outcome = "ok" -> renderSucceeds(mermaid, renders[i])
                    [] outcome = "error" -> renderFails(mermaid, "Parse error")
                    [] outcome = "timeout" -> renderFails(mermaid, "Render timeout")
    /\ renders' = [renders EXCEPT ![i].state = outcome,
                                  ![i].settled = 1 + Cardinality({j \in 1..Len(renders) :
                                                        renders[j].settled > 0})]
    /\ UNCHANGED << hardenVars, renderVars, parseVars, highlightVars >>

NextMermaid ==
    \/ \E value \in Charts : SetChart(value)
    \/ \E isDark \in BOOLEAN : SetThemeMode(isDark)
    \/ \E i \in 1..Len(renders), outcome \in {"ok", "error", "timeout"} :
           RenderSettles(i, outcome)

SpecMermaid == Init /\ [][NextMermaid]_vars

\* ------------------------------------ the highlighting effect as a state machine
\* The most runs of the effect of one component.
MaxRuns == 3

\* The inputs a component of the kind can have: the elements component
\* always asks for the two default themes.
HighlightInputs(kind) ==
    [code : {"a", "b"}, language : {"js", "ts"},
     themes : IF kind = "elements"
              THEN {<< "github-light-default", "github-dark-default" >>}
              ELSE {<< "github-light-default", "github-dark-default" >>,
                    << "min-light", "min-dark" >>}]

\* The component is created and its effect runs for the first time.
MountCodeBlock(kind, input) ==
    /\ ~block.mounted
    /\ block' = [block EXCEPT !.kind = kind, !.mounted = TRUE, !.input = input]
    /\ highlights' = << effectRun(input) >>
    /\ UNCHANGED << manager, jobs >>
    /\ UNCHANGED << hardenVars, renderVars, parseVars, mermaidVars >>

\* An input changes: the cleanup of the last run, then the next run.
ChangeInputs(input) ==
    /\ block.mounted /\ ~block.destroyed
    /\ input # block.input
    /\ Len(highlights) < MaxRuns
    /\ block' = [block EXCEPT !.input = input]
    /\ highlights' = Append(cleanup(highlights), effectRun(input))
    /\ UNCHANGED << manager, jobs >>
    /\ UNCHANGED << hardenVars, renderVars, parseVars, mermaidVars >>

\* The component is destroyed: the cleanup of the last run.
DestroyCodeBlock ==
    /\ block.mounted /\ ~block.destroyed
    /\ block' = [block EXCEPT !.destroyed = TRUE]
    /\ highlights' = cleanup(highlights)
    /\ UNCHANGED << manager, jobs >>
    /\ UNCHANGED << hardenVars, renderVars, parseVars, mermaidVars >>

\* The highlightCode promise of run i settles.
HighlightSettles(i, outcome) ==
    /\ highlights[i].state = "pending"
    /\ block' = IF outcome = "resolved" THEN highlightResolves(block, highlights[i])
                ELSE highlightRejects(block, highlights[i])
    /\ highlights' = [highlights EXCEPT ![i].state = outcome]
    /\ UNCHANGED << manager, jobs >>
    /\ UNCHANGED << hardenVars, renderVars, parseVars, mermaidVars >>

NextHighlight ==
    \/ \E kind \in {"streamdown", "elements"} : \E input \in HighlightInputs(kind) :
           MountCodeBlock(kind, input)
    \/ \E input \in HighlightInputs(block.kind) : ChangeInputs(input)
    \/ DestroyCodeBlock
    \/ \E i \in 1..Len(highlights), outcome \in {"resolved", "rejected"} :
           HighlightSettles(i, outcome)

SpecHighlight == Init /\ [][NextHighlight]_vars

\* --------------------------------------- HighlighterManager as a state machine

MaxHighlightCalls == 3

ThemePairs == {<< "l1", "d1" >>, << "l2", "d1" >>}

\* highlightCode(code, language, themes) up to its first await: at line 98 on
\* the stored promise, or at line 103 on the promise of the run it starts.
\* A promise that is settled already queues the continuation at once.  The
\* call is made by a task: after the queue of continuations has drained and
\* possibly after other calls of the same task, whose continuations wait.
HighlightCode(language, themes) ==
    /\ Len(jobs.calls) < MaxHighlightCalls
    /\ ~jobs.draining
    /\ IF manager.initializationPromise # 0
       THEN /\ jobs' = [calls |-> Append(jobs.calls,
                                     [language |-> language, themes |-> themes, pc |-> "98",
                                      awaiting |-> manager.initializationPromise,
                                      run |-> NoRun]),
                        microtasks |->
                            IF jobs.calls[manager.initializationPromise].run.state = "running"
                            THEN jobs.microtasks
                            ELSE Append(jobs.microtasks, Len(jobs.calls) + 1),
                        draining |-> FALSE]
            /\ manager' = manager
       ELSE /\ jobs' = [calls |-> Append(jobs.calls,
                                     [language |-> language, themes |-> themes, pc |-> "103",
                                      awaiting |-> Len(jobs.calls) + 1,
                                      run |-> ensureHighlightersInitialized(manager, themes,
                                                                            language)]),
                        microtasks |->
                            IF awaitsOf(manager, themes, language) = << >>
                            THEN Append(jobs.microtasks, Len(jobs.calls) + 1)
                            ELSE jobs.microtasks,
                        draining |-> FALSE]
            /\ manager' = initializing(manager, Len(jobs.calls) + 1, themes)
    /\ UNCHANGED << block, highlights >>
    /\ UNCHANGED << hardenVars, renderVars, parseVars, mermaidVars >>

\* The continuation of call c after line 98: the awaited promise is
\* fulfilled and the call starts its own run (lines 102-103), or it is
\* rejected and the call throws.
resumeAt98(c) ==
    IF jobs.calls[jobs.calls[c].awaiting].run.state = "rejected"
    THEN /\ jobs' = [calls |-> [jobs.calls EXCEPT ![c].pc = "threw"],
                     microtasks |-> Tail(jobs.microtasks),
                     draining |-> Tail(jobs.microtasks) # << >>]
         /\ manager' = manager
    ELSE /\ jobs' = [calls |-> [jobs.calls EXCEPT
                                   ![c].pc = "103",
                                   ![c].awaiting = c,
                                   ![c].run =
                                       ensureHighlightersInitialized(
                                           manager, jobs.calls[c].themes, jobs.calls[c].language)],
                     microtasks |->
                         IF awaitsOf(manager, jobs.calls[c].themes, jobs.calls[c].language) = << >>
                         THEN Append(Tail(jobs.microtasks), c)
                         ELSE Tail(jobs.microtasks),
                     draining |->
                         \/ Tail(jobs.microtasks) # << >>
                         \/ awaitsOf(manager, jobs.calls[c].themes, jobs.calls[c].language) = << >>]
         /\ manager' = initializing(manager, c, jobs.calls[c].themes)

\* The continuation of call c after line 103: its run is fulfilled and the
\* stored promise is set to null (line 104), whichever call stored it, or
\* the run is rejected and the call throws before line 104.
resumeAt103(c) ==
    /\ jobs' = [calls |-> [jobs.calls EXCEPT
                              ![c].pc = IF jobs.calls[c].run.state = "rejected"
                                        THEN "threw" ELSE "done"],
                microtasks |-> Tail(jobs.microtasks),
                draining |-> Tail(jobs.microtasks) # << >>]
    /\ manager' = IF jobs.calls[c].run.state = "rejected" THEN manager
                  ELSE [manager EXCEPT !.initializationPromise = 0]

\* The first continuation of the microtask queue runs; the queue drains
\* before the next task.
RunMicrotask ==
    /\ jobs.microtasks # << >>
    /\ IF jobs.calls[Head(jobs.microtasks)].pc = "98"
       THEN resumeAt98(Head(jobs.microtasks))
       ELSE resumeAt103(Head(jobs.microtasks))
    /\ UNCHANGED << block, highlights >>
    /\ UNCHANGED << hardenVars, renderVars, parseVars, mermaidVars >>

\* createHighlighter or loadLanguage settles for the run of call c, in a task
\* of its own, so with no continuation left in the queue.  Fulfilled, the run
\* goes on to its next await or to its end; rejected, the run is rejected.
\* The end of the run queues the continuations of the calls awaiting it.
AwaitSettles(c, outcome) ==
    /\ jobs.microtasks = << >>
    /\ jobs.calls[c].run.state = "running"
    /\ jobs' = [calls |-> [jobs.calls EXCEPT
                              ![c].run.awaits = Tail(@),
                              ![c].run.state =
                                  IF outcome = "rejected" THEN "rejected"
                                  ELSE IF Len(jobs.calls[c].run.awaits) = 1 THEN "fulfilled"
                                  ELSE "running"],
                microtasks |->
                    IF outcome = "rejected" \/ Len(jobs.calls[c].run.awaits) = 1
                    THEN reactions(jobs.calls, c) ELSE << >>,
                draining |->
                    /\ outcome = "rejected" \/ Len(jobs.calls[c].run.awaits) = 1
                    /\ reactions(jobs.calls, c) # << >>]
    /\ manager' =
          IF outcome = "rejected" THEN manager
          ELSE IF Len(jobs.calls[c].run.awaits) = 1
          THEN afterRun(afterAwait(manager, Head(jobs.calls[c].run.awaits),
                                   jobs.calls[c].themes, jobs.calls[c].language),
                        jobs.calls[c].run, jobs.calls[c].language)
          ELSE afterAwait(manager, Head(jobs.calls[c].run.awaits),
                          jobs.calls[c].themes, jobs.calls[c].language)
    /\ UNCHANGED << block, highlights >>
    /\ UNCHANGED << hardenVars, renderVars, parseVars, mermaidVars >>

NextManager ==
    \/ \E language \in {"js", "py", "zz"}, themes \in ThemePairs : HighlightCode(language, themes)
    \/ RunMicrotask
    \/ \E c \in 1..Len(jobs.calls), outcome \in {"fulfilled", "rejected"} :
           AwaitSettles(c, outcome)

SpecManager == Init /\ [][NextManager]_vars

\* ------------------------------------------------------------ properties
\* The properties read the variables after a call: url is the argument,
\* result the outcome, transformer the policy of the closure.

Called == result.line # 0

Accepted == Called /\ result.value.type = "string"

\* The input as the URL parser reads it: as an absolute URL, or else against
\* the default origin when there is one.  Stated on URL, not on parseUrl.
ParsedAs(text) ==
    LET alone == URL(text, "")
    IN  IF alone.ok THEN alone
        ELSE IF transformer.defaultOrigin # "" THEN URL(text, transformer.defaultOrigin)
        ELSE NoURL

InputUrl == IF url.type = "string" THEN ParsedAs(url.value) ELSE NoURL

HasWildcard == \E i \in 1..Len(transformer.allowedPrefixes) : transformer.allowedPrefixes[i] = "*"

\* The 27 protocols of the contract, as the documentation lists them.
BlockedProtocols ==
    {"javascript:", "data:", "vbscript:", "about:", "chrome:", "chrome-extension:",
     "moz-extension:", "file:", "blob:", "filesystem:", "jar:", "ms-appx:", "ms-appx-web:",
     "res:", "resource:", "app:", "intent:", "android-app:", "mailto:", "tel:", "sms:",
     "ftp:", "ws:", "wss:", "jscript:", "ecmascript:", "livescript:"}

\* A suspicious raw string, read forwards: a control character, a zero-width
\* character, or the name of a blocked protocol, then white space, then ":".
Suspicious(text) ==
    LET lower == toLowerCase(text)
    IN  \/ \E i \in 1..Len(text) : CharAt(text, i) \in {"\f", "~"}
        \/ \E p \in BlockedProtocols, i \in 1..Len(text) :
             LET last == i + Len(p) - 2
             IN  /\ last < Len(text)
                 /\ SubSeq(lower, i, last) = SubSeq(p, 1, Len(p) - 1)
                 /\ LET rest == From(text, last + 1)
                        k    == IndexNotIn(rest, {" ", "\t", "\n", "\r", "\f"})
                    IN  k <= Len(rest) /\ CharAt(rest, k) = ":"

\* Some entry of the allow-list other than "*" has the input's origin and a
\* normalized href the input's normalized href starts with.
SpecificPrefixMatches ==
    LET input == InputUrl
        whole == href(input)
    IN  \E i \in 1..Len(transformer.allowedPrefixes) :
            LET prefix == ParsedAs(transformer.allowedPrefixes[i])
                start  == href(prefix)
            IN  /\ transformer.allowedPrefixes[i] # "*"
                /\ prefix.ok
                /\ origin(prefix) = origin(input)
                /\ Len(start) <= Len(whole)
                /\ SubSeq(whole, 1, Len(start)) = start

\* C1: whatever the allow-list and the default origin, a call whose input
\* parses to one of the 27 dangerous protocols (compared without regard to
\* case) returns null.
C1_DangerousProtocolBlocked ==
    (Called /\ InputUrl.ok /\ toLowerCase(protocol(InputUrl)) \in BlockedProtocols)
        => result.value = Null

\* An ftp: input that the pattern check does not see (a tab inside the scheme,
\* which the parser removes) is blocked although the list holds its prefix.
C1_Witness ==
    /\ result.line = 130
    /\ protocol(InputUrl) = "ftp:"
    /\ ~Suspicious(url.value)
    /\ SpecificPrefixMatches

\* C2: without "*" in the allow-list, an input that passed the earlier checks
\* (non-empty string, no suspicious pattern, parseable, protocol not dangerous)
\* is accepted if and only if some prefix has exactly its origin and a
\* normalized href that its normalized href starts with; so neither
\* https://a.com.evil.com/ under https://a.com/ nor a path that leaves the
\* prefix through ".." is accepted.
C2_PrefixMatchIffAccepted ==
    /\ ( /\ Called
         /\ ~HasWildcard
         /\ url.type = "string" /\ url.value # "" /\ url.value # "streamdown:incomplete-link"
         /\ ~Suspicious(url.value)
         /\ InputUrl.ok
         /\ toLowerCase(protocol(InputUrl)) \notin BlockedProtocols )
       => (Accepted <=> SpecificPrefixMatches)
    /\ ( /\ Called
         /\ transformer.allowedPrefixes = << "https://a.com/" >>
         /\ url.type = "string" /\ startsWith(url.value, "https://a.com.evil.com") )
       => result.value = Null
    /\ ( /\ Called
         /\ transformer.allowedPrefixes = << "/p/" >>
         /\ url \in {Str("https://a.com/p/.."), Str("https://a.com/p/x/../../pq"), Str("/p/..")} )
       => result.value = Null

\* An input of the prefix's origin whose path leaves the prefix once ".." is
\* resolved, rejected by a list without "*".
C2_Witness ==
    /\ result.line = 170
    /\ transformer.allowedPrefixes = << "/p/" >>
    /\ transformer.defaultOrigin = "https://a.com"
    /\ url = Str("https://a.com/p/x/../../pq")
    /\ href(InputUrl) = "https://a.com/pq"

\* C3: any string other than the marker that holds a control character, a
\* zero-width character, or a dangerous protocol name followed by optional
\* white space and a colon is rejected under every policy, by the return that
\* precedes the call of parseUrl (line 121 before line 125).
C3_SuspiciousRejectedBeforeParsing ==
    ( /\ Called
      /\ url.type = "string" /\ url.value # "streamdown:incomplete-link"
      /\ Suspicious(url.value) )
    => result = [value |-> Null, line |-> 121]

\* A suspicious string that parses to an https: URL, under a list with "*".
C3_Witness ==
    /\ result.line = 121
    /\ Suspicious(url.value)
    /\ InputUrl.ok /\ protocol(InputUrl) = "https:"
    /\ HasWildcard

\* C4: the marker 'streamdown:incomplete-link' is returned unchanged under
\* every allow-list and every default origin.
C4_IncompleteLinkPassesThrough ==
    (Called /\ url = Str("streamdown:incomplete-link"))
        => result.value = Str("streamdown:incomplete-link")

\* The marker under the empty allow-list.
C4_Witness ==
    /\ Called
    /\ url = Str("streamdown:incomplete-link")
    /\ transformer.allowedPrefixes = << >>
    /\ result.value = url

\* C5: a call never throws: for every input and every policy, unparseable
\* prefixes included, it returns a string or null.
C5_NeverThrows == result.value.type \in {"string", "null"}

\* A parseable input checked against a list with an unparseable prefix.
C5_Witness ==
    /\ result.line \in {155, 170}
    /\ InputUrl.ok
    /\ \E i \in 1..Len(transformer.allowedPrefixes) :
          ~ParsedAs(transformer.allowedPrefixes[i]).ok

\* C6: when no specific prefix matches and the allow-list holds "*", an input
\* is accepted only if its parsed protocol is exactly http: or https:.
C6_WildcardOnlyHttp ==
    ( /\ Accepted
      /\ url.value # "streamdown:incomplete-link"
      /\ HasWildcard
      /\ ~SpecificPrefixMatches )
    => protocol(InputUrl) \in {"http:", "https:"}

C8_OutputForm ==
    /\ (Accepted /\ url.value # "streamdown:incomplete-link")
       => LET input == InputUrl
          IN  result.value.value =
                IF SubSeq(url.value, 1, 1) = "/"
                THEN input.path
                     \o (IF input.query # "" THEN "?" \o input.query ELSE "")
                     \o (IF input.fragment # "" THEN "#" \o input.fragment ELSE "")
                ELSE href(input)
    /\ \A tail \in {"?k=v#s", "?k=v", "#s"} :
         ( /\ Accepted
           /\ Len(url.value) >= Len(tail)
           /\ From(url.value, Len(url.value) - Len(tail) + 1) = tail )
         => /\ Len(result.value.value) >= Len(tail)
            /\ From(result.value.value, Len(result.value.value) - Len(tail) + 1) = tail

\* A path-relative input with a query and a fragment, accepted by a prefix and
\* returned relative.
C8_Witness ==
    /\ result.line = 153
    /\ InputUrl.query = "k=v" /\ InputUrl.fragment = "s"
    /\ result.value.value # href(InputUrl)

\* C9: with the empty allow-list every input but the marker is rejected,
\* whatever the default origin.
C9_EmptyListRejectsAll ==
    ( /\ Called
      /\ transformer.allowedPrefixes = << >>
      /\ url # Str("streamdown:incomplete-link") )
    => result.value = Null

\* A well-formed https: URL reaching the last return under the empty list.
C9_Witness ==
    /\ transformer.allowedPrefixes = << >>
    /\ protocol(InputUrl) = "https:"
    /\ result = [value |-> Null, line |-> 170]

\* C10: validateMarkdownOptions throws if and only if defaultOrigin is missing
\* or empty and one of the two lists holds an entry other than "*"; otherwise
\* it returns the given values, '' / [] / [] for the missing ones.
C10_ValidateThrowsIff ==
    LET noOrigin == ~options.defaultOrigin.defined \/ options.defaultOrigin.v = ""
        Specific(list) == list.defined /\ \E i \in 1..Len(list.v) : list.v[i] # "*"
    IN  /\ validated.threw <=>
              (noOrigin /\ (Specific(options.allowedLinkPrefixes)
                                \/ Specific(options.allowedImagePrefixes)))
        /\ ~validated.threw =>
              /\ validated.defaultOrigin =
                    (IF options.defaultOrigin.defined THEN options.defaultOrigin.v ELSE "")
              /\ validated.allowedLinkPrefixes =
                    (IF options.allowedLinkPrefixes.defined
                     THEN options.allowedLinkPrefixes.v ELSE << >>)
              /\ validated.allowedImagePrefixes =
                    (IF options.allowedImagePrefixes.defined
                     THEN options.allowedImagePrefixes.v ELSE << >>)

\* No default origin, only "*" for links, a specific prefix for images: throws.
C10_Witness ==
    /\ validated.threw
    /\ ~options.defaultOrigin.defined
    /\ options.allowedLinkPrefixes = Given(<< "*" >>)
    /\ \E i \in 1..Len(options.allowedImagePrefixes.v) : options.allowedImagePrefixes.v[i] # "*"


\* ---------------------------------------------------------------- rendering

\* What the transformer built from a prefix list returns for a token's href.
Transformed(prefixes, href_) ==
    transformUrl(Str(href_), prefixes, opts(props.options).defaultOrigin).value

\* The nodes rendered for ts carry the transformer's values: an accepted link
\* is an anchor whose href is that value, a rejected one a span without href
\* or src that shows the children, ' [blocked]' and the original URL in its
\* title; an accepted image is an img whose src is that value, a rejected one
\* a span showing '[Image blocked: alt]'; no other token renders an anchor or
\* an img of its own.
RECURSIVE Faithful(_, _)
FaithfulNode(t, n) ==
    LET o == opts(props.options)
        inner == IF t.tokens.defined THEN t.tokens.v ELSE << >>
    IN  CASE t.type = "link" ->
                LET r == Transformed(o.allowedLinkPrefixes, t.href)
                IN  /\ n.src = Null
                    /\ IF r # Null
                       THEN /\ n.tag = "a"
                            /\ n.href = r
                            /\ Len(n.children) >= Len(inner)
                       ELSE /\ n.tag = "span"
                            /\ n.href = Null
                            /\ n.title = "Blocked URL: " \o t.href
                            /\ Len(n.children) = Len(inner) + (IF t.tokens.defined THEN 1 ELSE 2)
                            /\ n.children[Len(n.children)].text = " [blocked]"
                    /\ Faithful(inner, SubSeq(n.children, 1, Len(inner)))
                    /\ ~t.tokens.defined => n.children[1] = TextNode(t.text)
          [] t.type = "image" ->
                LET r == Transformed(o.allowedImagePrefixes, t.href)
                IN  /\ n.href = Null
                    /\ IF r # Null
                       THEN n.tag = "img" /\ n.src = r /\ n.children = << >>
                       ELSE /\ n.tag = "span"
                            /\ n.src = Null
                            /\ n.children =
                                << TextNode("[Image blocked: "
                                            \o (IF t.text # "" THEN t.text ELSE "Image") \o "]") >>
          [] OTHER ->
                /\ n.tag \notin {"a", "img"}
                /\ n.href = Null /\ n.src = Null
                /\ IF t.type \in {"del", "text"} /\ t.tokens.defined
                   THEN Len(n.children) = Len(inner) /\ Faithful(inner, n.children)
                   ELSE \A i \in 1..Len(n.children) : n.children[i].tag = "#text"

Faithful(ts, nodes) ==
    /\ Len(nodes) = Len(ts)
    /\ \A i \in 1..Len(ts) : FaithfulNode(ts[i], nodes[i])

Rendered == tokens # << >> /\ ~rendered.threw

\* C11: every rendered link href and image src is the value the link or image
\* transformer returned for the token's href; where it returned null there is
\* no anchor and no img but a span: the link's content, ' [blocked]' and the
\* original URL in the title, or '[Image blocked: alt]'.
C11_RenderedUrlsAreTransformed ==
    Rendered => Faithful(tokens, rendered.nodes)

\* A rejected link around an accepted image: the span of the link holds the
\* img with the transformed src and the marker text.
C11_Witness ==
    /\ Rendered
    /\ tokens[1].type = "link" /\ tokens[1].href = "https://b.com/x"
    /\ rendered.nodes[1].tag = "span"
    /\ rendered.nodes[1].title = "Blocked URL: https://b.com/x"
    /\ Len(rendered.nodes[1].children) = 2
    /\ rendered.nodes[1].children[1].tag = "img"
    /\ rendered.nodes[1].children[1].src = Str("https://a.com/i.png")
    /\ rendered.nodes[1].children[2] = TextNode(" [blocked]")


\* ------------------------------------------------- parseMarkdownIntoTokens

\* The last call returned.
Returned == call.made /\ ~returned.threw

\* The raw texts of tokens, and blocks, one after the other.
RECURSIVE Raws(_)
Raws(ts) == IF ts = << >> THEN "" ELSE ts[1].raw \o Raws(Tail(ts))

RECURSIVE Join(_)
Join(blocks) == IF blocks = << >> THEN "" ELSE blocks[1] \o Join(Tail(blocks))

\* The characters of a occur in b in the same order.
RECURSIVE Kept(_, _)
Kept(a, b) ==
    IF a = "" THEN TRUE
    ELSE IF b = "" THEN FALSE
    ELSE IF CharAt(a, 1) = CharAt(b, 1) THEN Kept(From(a, 2), From(b, 2))
    ELSE Kept(a, From(b, 2))

\* s holds four dollar signs in a row.
FourDollars(s) == \E i \in 1..(Len(s) - 3) : SubSeq(s, i, i + 3) = "$$$$"

C14_LexerFailureRecovered ==
    (call.made /\ call.failAt # 0) => ~returned.threw

\* C15: whatever calls came before, a call returns the tokens of the uncached
\* computation for its snapshot and flag, and every cache entry holds the
\* tokens of the one call its key was made from.
C15_CacheIsTransparent ==
    /\ Returned => returned.tokens = tokensOf(call.markdown, call.flag, closing)
    /\ \A i \in 1..Len(tokenCache) : \A c \in CachePool :
            tokenCache[i].key = c[1] \o ":" \o (IF c[2] THEN "true" ELSE "false")
                => tokenCache[i].value = tokensOf(c[1], c[2], closing)

\* A hit for a snapshot with repair while the cache holds the same snapshot
\* without repair, whose tokens differ.
C15_Witness ==
    /\ Returned /\ returned.hit
    /\ call.markdown = "x\n\nx" /\ call.flag
    /\ Len(returned.tokens) = 2
    /\ \E i \in 1..Len(tokenCache) :
            tokenCache[i].key = "x\n\nx:false" /\ Len(tokenCache[i].value) = 3

\* C16 as stated: the cache holds the most recently used keys, a hit being a
\* use: as many of them as it has entries.
C16_EvictsLeastRecentlyUsed ==
    {tokenCache[i].key : i \in 1..Len(tokenCache)}
        = {recent[i] : i \in (Len(recent) - Len(tokenCache) + 1)..Len(recent)}

\* C17: the cache never holds more than MAX_CACHE_SIZE entries.
C17_CacheBounded == Len(tokenCache) <= MAX_CACHE_SIZE

\* A full cache after an eviction: a key that was used is no longer held.
C17_Witness ==
    /\ Len(tokenCache) = MAX_CACHE_SIZE
    /\ \E i \in 1..Len(recent) : \A j \in 1..Len(tokenCache) : tokenCache[j].key # recent[i]

\* ------------------------------------------------------------- MermaidClass
\* The render asked for last, and whether every render has settled.
LastRender == renders[Len(renders)]
AllSettled == \A i \in 1..Len(renders) : renders[i].state # "pending"

\* C18: once every render of a MermaidClass instance has settled, and the
\* render asked for last was for the chart and theme the instance has now
\* and succeeded, the SVG on display is the one rendered for that chart and
\* theme: no result of an earlier render is committed over it.
C18_LatestRenderIsDisplayed ==
    (/\ renders # << >>
     /\ AllSettled
     /\ LastRender.chart = processedChart(mermaid)
     /\ LastRender.theme = mermaid.currentThemeMode
     /\ LastRender.state \in {"ok", "cached"})
    => displaySvg(mermaid) = Svg(LastRender.chart, LastRender.theme)


\* Some render of the instance has resolved in rs.
Succeeded(rs) == \E j \in 1..Len(rs) : rs[j].state = "ok"

\* C20: when a render of an instance fails or runs into the five-second
\* bound after a render of that instance succeeded, the SVG on display stays
\* the same and the SVG branch is rendered, not the error panel; a render
\* that succeeds puts its own SVG on display; and the error panel is
\* rendered only while no render of the instance has succeeded.
C20_FailureKeepsLastValidSvg ==
    [][/\ \A i \in 1..Len(renders) :
            /\ (/\ renders[i].state = "pending"
                /\ renders'[i].state \in {"error", "timeout"}
                /\ Succeeded(renders))
               => /\ displaySvg(mermaid') = displaySvg(mermaid)
                  /\ panel(mermaid') = "svg"
            /\ (renders[i].state = "pending" /\ renders'[i].state = "ok")
               => displaySvg(mermaid') = Svg(renders[i].chart, renders[i].theme)
       /\ panel(mermaid') = "error" => ~Succeeded(renders')]_vars

\* A render resolved and a later one ran out of time: the SVG of the first
\* is on display and no error is set.
C20_Witness ==
    \E i, j \in 1..Len(renders) :
        /\ renders[i].state = "ok"
        /\ renders[j].state = "timeout" /\ renders[j].settled > renders[i].settled
        /\ mermaid.error = ""
        /\ panel(mermaid) = "svg"
        /\ displaySvg(mermaid) = Svg(renders[i].chart, renders[i].theme)


\* ------------------------------------------------------ CodeBlock highlighting
\* The run i of the effect has been superseded: a later run exists or the
\* component is destroyed.
Superseded(i) == i < Len(highlights) \/ block.destroyed

\* C19: when the highlighting of a run of the effect settles after the
\* inputs changed or the component was destroyed, the light and dark HTML stay
\* as they are; when the highlighting of the current run resolves, its HTML
\* is what the component shows.
C19_StaleHighlightDiscarded ==
    [][\A i \in 1..Len(highlights) :
          (highlights[i].state = "pending" /\ highlights'[i].state # "pending")
          => /\ Superseded(i)
                => /\ block'.lightHtml = block.lightHtml
                   /\ block'.darkHtml = block.darkHtml
             /\ (~Superseded(i) /\ highlights'[i].state = "resolved")
                => /\ block'.lightHtml = Html(block.input.code, block.input.language,
                                              block.input.themes[1])
                   /\ block'.darkHtml = Html(block.input.code, block.input.language,
                                             block.input.themes[2])]_vars

\* Every run has resolved and the component is destroyed: it holds the HTML
\* of its second run, whose inputs differ from those of the first, and not
\* that of its last inputs, whose highlighting resolved after the destroy.
C19_Witness ==
    /\ block.destroyed
    /\ Len(highlights) = MaxRuns
    /\ \A i \in 1..Len(highlights) : highlights[i].state = "resolved"
    /\ highlights[1].input.code # highlights[2].input.code
    /\ highlights[2].isMounted = FALSE
    /\ block.lightHtml = Html(highlights[2].input.code, highlights[2].input.language,
                              highlights[2].input.themes[1])
    /\ block.lightHtml # Html(block.input.code, block.input.language, block.input.themes[1])


\* ------------------------------------------------------- MermaidClass: cache
\* The cache holds an entry under the key.
Cached(m, key) == \E e \in 1..Len(m.chartCache) : m.chartCache[e].key = key

\* C21: when the instance is asked for a chart and theme whose render has
\* succeeded before, and the cache still holds the entry of that chart and
\* theme, the request is served from the cache and starts no render.
C21_RenderedChartServedFromCache ==
    [][(/\ Len(renders') = Len(renders) + 1
        /\ Cached(mermaid, renders'[Len(renders')].key)
        /\ \E i \in 1..Len(renders) :
               /\ renders[i].state = "ok"
               /\ renders[i].chart = renders'[Len(renders')].chart
               /\ renders[i].theme = renders'[Len(renders')].theme)
       => renders'[Len(renders')].state = "cached"]_vars


\* C22: while the chart text of the instance is empty or whitespace only,
\* Mermaid.svelte renders none of its branches: no spinner, no error panel
\* and no SVG.
C22_EmptyChartRendersNothing ==
    processedChart(mermaid) = "" => panel(mermaid) = "none"


\* C30: isLoading is true exactly while some render of the instance is still
\* in flight.
C30_LoadingWhileInFlight ==
    mermaid.isLoading = (\E i \in 1..Len(renders) : renders[i].state = "pending")


\* ------------------------------------------------------------ incomplete links
\* C23: with repair on, content that ends in link text that is not closed
\* is rendered, under every policy that validates, as the text before it and
\* an anchor whose href is the marker 'streamdown:incomplete-link', marked
\* incomplete, whose only content is the link text.
C23_IncompleteLinkRendered ==
    (/\ Rendered
     /\ call.flag
     /\ call.markdown \in {"Text with incomplete [link", "[link"})
    => /\ rendered.nodes[Len(rendered.nodes)] =
            Element("a", "link", Str("streamdown:incomplete-link"), Null, "", "", TRUE,
                    << TextNode("link") >>)
       /\ \A i \in 1..(Len(rendered.nodes) - 1) : rendered.nodes[i].tag = "#text"

\* The content of the test under the empty allow-list.
C23_Witness ==
    /\ Rendered
    /\ call.flag
    /\ call.markdown = "Text with incomplete [link"
    /\ props.options.allowedLinkPrefixes = Given(<< >>)
    /\ rendered.nodes =
        << TextNode("Text with incomplete "),
           Element("a", "link", Str("streamdown:incomplete-link"), Null, "", "", TRUE,
                   << TextNode("link") >>) >>


\* ---------------------------------------------------------------- the repairer
\* The text has no dangling construct: the delimiters of bold,
\* strikethrough and block math come in pairs, every "[" has a "]" after it
\* and every "](" a ")" after it.
Complete(text) ==
    /\ \A d \in {"**", "~~", "$$"} : delimiterCount(text, d) % 2 = 0
    /\ \A i \in 1..Len(text) :
          /\ CharAt(text, i) = "[" => \E j \in (i + 1)..Len(text) : CharAt(text, j) = "]"
          /\ (i < Len(text) /\ SubSeq(text, i, i + 1) = "](")
             => \E j \in (i + 2)..Len(text) : CharAt(text, j) = ")"

SameUrl(a, b) ==
    /\ a.ok /\ b.ok
    /\ origin(a) = origin(b)
    /\ pathname(a) = pathname(b)
    /\ search(a) = search(b)
    /\ hash(a) = hash(b)

\* C29: when an input that starts with "/" is accepted and returned as a
\* root-relative path, that path resolved against the default origin is the
\* very URL whose origin and prefix were validated, "//" inputs included.
C29_RelativeOutputResolvesToValidated ==
    ( /\ Accepted
      /\ isPathRelativeUrl(url)
      /\ url.value # "streamdown:incomplete-link"
      /\ transformer.defaultOrigin # "" )
    => SameUrl(URL(result.value.value, transformer.defaultOrigin), InputUrl)

\* A root-relative input accepted by a prefix and returned relative.
C29_Witness ==
    /\ Accepted
    /\ url = Str("/p/p?k=v#s")
    /\ result.line \in {153, 165}
    /\ SameUrl(URL(result.value.value, transformer.defaultOrigin), InputUrl)


\* ------------------------------------------------- merging and processing

\* The pass just taken by the merge loop: the block it read and the block
\* before it.
PassTaken == merging.stage = "merge" /\ merging'.stage = "merge" /\ merging'.i = merging.i + 1

CurrentBlock == merging.tokensWithMeta[merging.i].raw

PreviousBlock == merging.mergedBlocks[Len(merging.mergedBlocks)]

\* The candidate for a merge is a complete block-math shape.
Validates == blockKatexRegex(trim(PreviousBlock \o CurrentBlock))

\* C26: a pass of the loop either replaces the last block by its
\* concatenation with the current one or appends the current block, and
\* leaves the blocks before alone.  It merges only if the last block starts
\* with "$$" and holds an odd number of "$$", the current block is "$$" alone
\* or ends with its only "$$", and the concatenation validates; when the
\* concatenation does not validate the current block is appended unchanged
\* after the unchanged last block.
C26_MergeOnlyValidated ==
    [][ PassTaken =>
          IF Len(merging'.mergedBlocks) = Len(merging.mergedBlocks) + 1
          THEN merging'.mergedBlocks = Append(merging.mergedBlocks, CurrentBlock)
          ELSE /\ merging.mergedBlocks # << >>
               /\ merging'.mergedBlocks =
                     [merging.mergedBlocks EXCEPT ![Len(merging.mergedBlocks)] =
                                                      PreviousBlock \o CurrentBlock]
               /\ startsWith(trimStart(PreviousBlock), "$$")
               /\ dollarCount(PreviousBlock) % 2 = 1
               /\ \/ trim(CurrentBlock) = "$$"
                  \/ endsWith(trimEnd(CurrentBlock), "$$") /\ dollarCount(CurrentBlock) = 1
               /\ Validates
               /\ merging.tokensWithMeta[merging.i].type \notin {"blockKatex", "inlineKatex"}
      ]_vars

\* A closing "$$" kept apart from an opening block it does not complete, then
\* completed itself by the block after it.
C26_Witness ==
    /\ Len(merging.tokensWithMeta) = 3
    /\ merging.tokensWithMeta[1].raw = "$$x\n"
    /\ merging.tokensWithMeta[2].raw = "$$\n"
    /\ merging.tokensWithMeta[3].raw = "x\n$$"
    /\ merging.i = 4
    /\ merging.mergedBlocks = << "$$x\n", "$$\nx\n$$" >>

\* C27: with repair on, a merged block of the complete block-math shape is
\* among the processed blocks as it is, every other block is trimmed and
\* given to the repairer, once, and replaced by what the repairer returns;
\* with repair off the processed blocks are the merged blocks.
C27_OnlyIncompleteBlocksRepaired ==
    merging.stage = "processed" =>
      /\ Len(merging.processedBlocks) = Len(merging.mergedBlocks)
      /\ IF merging.shouldParseIncompleteMarkdown
         THEN /\ \A i \in 1..Len(merging.mergedBlocks) :
                   merging.processedBlocks[i] =
                     IF blockKatexRegex(merging.mergedBlocks[i])
                     THEN merging.mergedBlocks[i]
                     ELSE parseIncompleteMarkdown(trim(merging.mergedBlocks[i]), closing)
              /\ merging.repairerCalls =
                   SelectSeq([i \in 1..Len(merging.mergedBlocks) |->
                                 IF blockKatexRegex(merging.mergedBlocks[i])
                                 THEN "skipped" ELSE trim(merging.mergedBlocks[i])],
                             LAMBDA t : t # "skipped")
         ELSE /\ merging.processedBlocks = merging.mergedBlocks
              /\ merging.repairerCalls = << >>

\* A complete math block kept with its final line break next to an open block
\* that is trimmed and closed.
C27_Witness ==
    /\ merging.stage = "processed"
    /\ merging.shouldParseIncompleteMarkdown
    /\ merging.mergedBlocks = << "$$\nx\n$$\n", "$$\nx\n" >>
    /\ merging.processedBlocks = << "$$\nx\n$$\n", "$$\nx\n$$" >>
    /\ merging.repairerCalls = << "$$\nx" >>


\* ------------------------------------------------------- HighlighterManager

\* The runs of ensureHighlightersInitialized that have begun and not ended.
InProgress == {c \in 1..Len(jobs.calls) : jobs.calls[c].run.state = "running"}

\* C28: at no time are two runs of ensureHighlightersInitialized in progress
\* on the manager.
C28_OneInitializationAtATime == Cardinality(InProgress) <= 1

=============================================================================
